---- MODULE Spec2Model ----
(***************************************************************************)
(* A model of the anti-aliasing rasterizer of kiss2d (src/src/vg): the     *)
(* path accumulator, the fixed-point and the floating-point coverage       *)
(* engines, the accumulator and the uniform-source compositors.            *)
(*                                                                         *)
(* Machine integers are modelled with their width.  An i32 is an integer   *)
(* in MinI32..MaxI32; a u32 cell of the buffer is held as its i32 bit      *)
(* pattern (the value v - 2^32 for v >= 2^31), so that "read as unsigned,  *)
(* the cell is in 0..0xFFFF" is "the pattern is in 0..0xFFFF".  An f32 is  *)
(* held as its IEEE-754 bit pattern, again as an i32.                      *)
(*                                                                         *)
(* Rust's integer arithmetic depends on the build: with overflow checks    *)
(* (the default of a debug build) an overflowing +, -, *, unary - or an    *)
(* out-of-range shift amount panics; without them (the default of a        *)
(* release build) the result wraps and the shift amount is masked to five  *)
(* bits.  Every arithmetic operator below returns the wrapped result; its  *)
(* companion ...Ovf says whether the checked build panics there.           *)
(***************************************************************************)
EXTENDS Integers, Sequences, FiniteSets, TLC

MaxI32 == 2147483647
MinI32 == -MaxI32 - 1
Two16 == 65536

Pow2Tab == <<1, 2, 4, 8, 16, 32, 64, 128, 256, 512, 1024, 2048, 4096, 8192,
             16384, 32768, 65536, 131072, 262144, 524288, 1048576, 2097152,
             4194304, 8388608, 16777216, 33554432, 67108864, 134217728,
             268435456, 536870912, 1073741824>>
Pow2(n) == Pow2Tab[n + 1]

Abs(a) == IF a < 0 THEN -a ELSE a

\* Body applied to the value v: a local binding, `let name = v;`.  The value
\* is computed first, as the statement computes it before what follows.
With(v, Body(_)) == IF v = v THEN Body(v) ELSE v

\* The i32 with 16-bit halves hi (0..65535) and lo (0..65535).
FromHL(hi, lo) == IF hi >= 32768 THEN (hi - Two16) * Two16 + lo ELSE hi * Two16 + lo
Hi16(a) == (a \div Two16) % Two16
Lo16(a) == a % Two16

\* a + b of two i32, wrapped to 32 bits.
AddOvf(a, b) == IF b >= 0 THEN a > MaxI32 - b ELSE a < MinI32 - b
WrapAdd(a, b) ==
    IF ~AddOvf(a, b) THEN a + b
    ELSE IF b >= 0 THEN (a - MaxI32 - 1) + (b - MaxI32 - 1)
    ELSE (a + MaxI32 + 1) + (b + MaxI32 + 1)

\* -a of an i32, wrapped: only MinI32 overflows, to itself.
NegOvf(a) == a = MinI32
WrapNeg(a) == IF a = MinI32 THEN MinI32 ELSE -a

SubOvf(a, b) == IF b = MinI32 THEN a >= 0 ELSE AddOvf(a, -b)
WrapSub(a, b) == IF b = MinI32 THEN WrapAdd(WrapAdd(a, MaxI32), 1) ELSE WrapAdd(a, -b)

\* a * b of two i32, wrapped to 32 bits, computed on 16- and 8-bit limbs so
\* that no intermediate value leaves the 32-bit range.
MulOvf(a, b) ==
    IF a = 0 \/ b = 0 THEN FALSE
    ELSE IF a = MinI32 THEN b # 1
    ELSE IF b = MinI32 THEN a # 1
    ELSE IF (a > 0) = (b > 0) THEN Abs(a) > MaxI32 \div Abs(b)
    ELSE IF Abs(b) = 1 THEN FALSE
    ELSE Abs(a) > (MaxI32 \div Abs(b)) + (IF (MaxI32 % Abs(b)) + 1 = Abs(b) THEN 1 ELSE 0)
WrapMul(a, b) ==
    IF ~MulOvf(a, b) THEN a * b
    ELSE LET al == Lo16(a)
             ah == Hi16(a)
             bl == Lo16(b)
             bh == Hi16(b)
             c1 == (((ah % 256) * bl) + ((((ah \div 256) * bl) % 256) * 256)) % Two16
             c2 == (((bh % 256) * al) + ((((bh \div 256) * al) % 256) * 256)) % Two16
         IN With(al * (bl \div 256), LAMBDA t2 :
            With((al * (bl % 256)) + ((t2 % 256) * 256), LAMBDA s :
            FromHL(((((s \div Two16) + (t2 \div 256)) % Two16) + c1 + c2) % Two16,
                   s % Two16)))

\* a << n and a >> n of an i32 by an i32 amount.  The amount is in range iff
\* 0 <= n < 32; otherwise the checked build panics and the unchecked build
\* uses n mod 32.  Bits shifted out of a << n are dropped in both builds.
ShiftOvf(n) == n < 0 \/ n > 31
Shl(a, n) ==
    LET k == n % 32
    IN IF k = 31 THEN (IF (a % 2) = 1 THEN MinI32 ELSE 0)
       ELSE IF k = 30 THEN FromHL((a % 4) * 16384, 0)
       ELSE WrapMul(a, Pow2(k))
Shr(a, n) ==
    LET k == n % 32
    IN IF k = 31 THEN (IF a < 0 THEN -1 ELSE 0) ELSE a \div Pow2(k)

\* a / b of two i32: the quotient truncated toward zero.  b = 0 panics in
\* every build (DivPanics), as does MinI32 / -1.
DivPanics(a, b) == b = 0 \/ (a = MinI32 /\ b = -1)
TruncDiv(a, b) ==
    IF DivPanics(a, b) THEN 0
    ELSE IF a = MinI32
         THEN (IF b = MinI32 THEN 1
               ELSE IF b = 1 THEN MinI32
               ELSE IF b > 0 THEN -(((MaxI32 \div b)) + (IF (MaxI32 % b) + 1 = b THEN 1 ELSE 0))
               ELSE ((MaxI32 \div (-b))) + (IF (MaxI32 % (-b)) + 1 = -b THEN 1 ELSE 0))
    ELSE IF b = MinI32 THEN 0
    ELSE IF (a >= 0) = (b > 0) THEN Abs(a) \div Abs(b)
    ELSE -(Abs(a) \div Abs(b))

\* The sum of two u32 held as i32 patterns; U32AddOvf says whether the
\* unsigned sum reaches 2^32 (the checked build panics there).
U32AddOvf(a, b) == IF a < 0 /\ b < 0 THEN TRUE
                   ELSE IF a >= 0 /\ b >= 0 THEN FALSE
                   ELSE a + b >= 0
U32Add(a, b) == WrapAdd(a, b)


(***************************************************************************)
(* f32: IEEE-754 binary32 with round-to-nearest-even, on bit patterns.     *)
(* A finite non-zero value is unpacked to [neg, m, e] with value           *)
(* (-1)^neg * m * 2^e and 2^23 <= m < 2^24 (subnormals are normalised, so  *)
(* e may be below -149).  Infinities and NaN do not occur: the model's     *)
(* coordinates are bounded.                                                *)
(***************************************************************************)
Two23 == Pow2(23)
Two24 == Pow2(24)

F32Neg(a) == IF a < 0 THEN a - MinI32 ELSE a + MinI32
F32Mag(a) == IF a < 0 THEN a - MinI32 ELSE a
F32IsZero(a) == F32Mag(a) = 0

\* The number of bits of M, for 0 <= M < 2^31.
BitLen(M) ==
    IF M < 32768 THEN IF M < 128 THEN IF M < 8 THEN IF M < 2 THEN IF M < 1 THEN 0
                        ELSE 1
                   ELSE IF M < 4 THEN 2
                        ELSE 3
              ELSE IF M < 32 THEN IF M < 16 THEN 4
                        ELSE 5
                   ELSE IF M < 64 THEN 6
                        ELSE 7
         ELSE IF M < 2048 THEN IF M < 512 THEN IF M < 256 THEN 8
                        ELSE 9
                   ELSE IF M < 1024 THEN 10
                        ELSE 11
              ELSE IF M < 8192 THEN IF M < 4096 THEN 12
                        ELSE 13
                   ELSE IF M < 16384 THEN 14
                        ELSE 15
    ELSE IF M < 8388608 THEN IF M < 524288 THEN IF M < 131072 THEN IF M < 65536 THEN 16
                        ELSE 17
                   ELSE IF M < 262144 THEN 18
                        ELSE 19
              ELSE IF M < 2097152 THEN IF M < 1048576 THEN 20
                        ELSE 21
                   ELSE IF M < 4194304 THEN 22
                        ELSE 23
         ELSE IF M < 134217728 THEN IF M < 33554432 THEN IF M < 16777216 THEN 24
                        ELSE 25
                   ELSE IF M < 67108864 THEN 26
                        ELSE 27
              ELSE IF M < 536870912 THEN IF M < 268435456 THEN 28
                        ELSE 29
                   ELSE IF M < 1073741824 THEN 30
                        ELSE 31

\* The subnormal significand m # 0 shifted up by k bits.
NormBy(neg, m, e, k) == [neg |-> neg, m |-> m * Pow2(k), e |-> e - k]
\* ... until it has 24 bits.
NormUp(neg, m, e) == NormBy(neg, m, e, 24 - BitLen(m))

Unpack(a) ==
    LET ex == F32Mag(a) \div Two23
        fr == F32Mag(a) % Two23
    IN IF ex = 0 THEN NormUp(a < 0, fr, -149)
       ELSE [neg |-> a < 0, m |-> Two23 + fr, e |-> ex - 150]

\* Shift M right by k bits, folding the bits shifted out into the sticky flag.
ShrSticky(M, k, sticky) ==
    IF k <= 0 THEN [M |-> M, sticky |-> sticky]
    ELSE IF k > 30 THEN [M |-> 0, sticky |-> sticky \/ M # 0]
    ELSE [M |-> M \div Pow2(k), sticky |-> sticky \/ (M % Pow2(k)) # 0]

\* M shifted left until it has 26 bits, not taking E below -151.
ShlAmount(want, room) ==
    IF want <= 0 \/ room <= 0 THEN 0 ELSE IF want < room THEN want ELSE room
ShlBy(M, E, k) == [M |-> M * Pow2(k), E |-> E - k]
ShlTo26(M, E) ==
    IF M = 0 THEN [M |-> 0, E |-> IF E < -151 THEN E ELSE -151]
    ELSE ShlBy(M, E, ShlAmount(26 - BitLen(M), E + 151))

\* The number of low bits to drop from a significand of `bits` bits at
\* exponent E: those beyond 26, and those below the subnormal exponent -151.
DropBits(bits, E) ==
    LET over == IF bits > 26 THEN bits - 26 ELSE 0
    IN over + (IF E + over < -151 THEN -151 - (E + over) ELSE 0)

\* The bit pattern of (-1)^neg * m1 * 2^(TE + 2), for m1 <= 2^24.
PackMag(neg, m1, TE) ==
    LET m == IF m1 = Two24 THEN Two23 ELSE m1
        e == IF m1 = Two24 THEN TE + 3 ELSE TE + 2
        mag == IF m < Two23 THEN m
               ELSE IF e + 150 >= 255 THEN 255 * Two23
               ELSE (e + 150) * Two23 + (m - Two23)
    IN IF neg THEN mag + MinI32 ELSE mag

\* T, of at most 26 bits, rounded to nearest-even at its bit 2.
RoundEven(T, sticky) ==
    IF (T % 4) = 3 \/ ((T % 4) = 2 /\ (sticky \/ ((T \div 4) % 2) = 1))
    THEN (T \div 4) + 1 ELSE T \div 4

\* The f32 nearest to (-1)^neg * (M + s) * 2^E, where 0 <= M < 2^31 and s is
\* 0, or some value strictly between 0 and 1 when sticky holds.
RoundPack(neg, M, E, sticky) ==
    IF M = 0 /\ ~sticky THEN (IF neg THEN MinI32 ELSE 0)
    ELSE
    With(ShlTo26(M, E), LAMBDA up :
    With(DropBits(BitLen(up.M), up.E), LAMBDA drop :
    With(ShrSticky(up.M, drop, sticky), LAMBDA sh :
    PackMag(neg, RoundEven(sh.M, sh.sticky), up.E + drop))))

\* big + sml for two unpacked values, big the one of larger magnitude.
AddOrdered(big, sml) ==
    With(ShrSticky(sml.m * 8, big.e - sml.e, FALSE), LAMBDA sb :
    IF big.neg # sml.neg /\ big.m * 8 = sb.M /\ ~sb.sticky THEN 0
    ELSE RoundPack(big.neg,
                   IF big.neg = sml.neg THEN (big.m * 8) + sb.M
                   ELSE (big.m * 8) - sb.M - (IF sb.sticky THEN 1 ELSE 0),
                   big.e - 3, sb.sticky))

F32Add(a, b) ==
    IF F32IsZero(a) /\ F32IsZero(b) THEN (IF a < 0 /\ b < 0 THEN MinI32 ELSE 0)
    ELSE IF F32IsZero(a) THEN b
    ELSE IF F32IsZero(b) THEN a
    ELSE
    With(Unpack(a), LAMBDA ua :
    With(Unpack(b), LAMBDA ub :
    LET first == ua.e > ub.e \/ (ua.e = ub.e /\ ua.m >= ub.m)
    IN AddOrdered(IF first THEN ua ELSE ub, IF first THEN ub ELSE ua)))
F32Sub(a, b) == F32Add(a, F32Neg(b))

\* The 48-bit product of two 24-bit significands, as the high 24 bits and
\* the low 24 bits, computed on 12-bit limbs.
MulWide(am, bm) ==
    LET ah == am \div 4096
        al == am % 4096
        bh == bm \div 4096
        bl == bm % 4096
        hl == ah * bl + al * bh
        low == ((hl % 4096) * 4096) + (al * bl)
    IN [high |-> (ah * bh) + (hl \div 4096) + (low \div Two24), low |-> low % Two24]

F32Mul(a, b) ==
    IF F32IsZero(a) \/ F32IsZero(b) THEN (IF (a < 0) # (b < 0) THEN MinI32 ELSE 0)
    ELSE
    With(Unpack(a), LAMBDA ua :
    With(Unpack(b), LAMBDA ub :
    With(MulWide(ua.m, ub.m), LAMBDA p :
    RoundPack(ua.neg # ub.neg, (p.high * 4) + (p.low \div Pow2(22)),
              ua.e + ub.e + 22, (p.low % Pow2(22)) # 0))))

\* floor(r * 2^26 / d) and whether the division left a remainder, for
\* 2^23 <= r, d < 2^24, in steps small enough for 32-bit integers.
LongDiv(r, d) ==
    LET r0 == r % d
        r1 == (r0 * 128) % d
        r2 == (r1 * 128) % d
        r3 == (r2 * 64) % d
    IN [q |-> (((((((r \div d) * 128) + ((r0 * 128) \div d)) * 128)
                 + ((r1 * 128) \div d)) * 64) + ((r2 * 64) \div d)) * 64
              + ((r3 * 64) \div d),
        r |-> (r3 * 64) % d]

\* a / b for b # 0.
F32Div(a, b) ==
    IF F32IsZero(a) THEN (IF (a < 0) # (b < 0) THEN MinI32 ELSE 0)
    ELSE
    With(Unpack(a), LAMBDA ua :
    With(Unpack(b), LAMBDA ub :
    With(LongDiv(ua.m, ub.m), LAMBDA qr :
    RoundPack(ua.neg # ub.neg, qr.q, ua.e - ub.e - 26, qr.r # 0))))

\* The order of two finite f32: -0.0 and 0.0 are equal.
F32Key(a) == IF a < 0 THEN -(a - MinI32) ELSE a
F32Lt(a, b) == F32Key(a) < F32Key(b)
F32Le(a, b) == F32Key(a) <= F32Key(b)

\* n as f32, for an i32 n > MinI32.
I32ToF32(n) == RoundPack(n < 0, Abs(n), 0, FALSE)

\* floor of the magnitude of a as an integer, saturated at MaxI32.
F32TruncMag(a) ==
    IF F32IsZero(a) THEN 0
    ELSE With(Unpack(a), LAMBDA u :
              IF u.e >= 8 THEN MaxI32
              ELSE IF u.e >= 0 THEN u.m * Pow2(u.e)
              ELSE IF u.e < -30 THEN 0
              ELSE u.m \div Pow2(-u.e))
F32IsInt(a) ==
    F32IsZero(a) \/ With(Unpack(a), LAMBDA u :
                         u.e >= 0 \/ (u.e >= -30 /\ (u.m % Pow2(-u.e)) = 0))

\* a as i32: truncation toward zero, saturating.
F32ToI32(a) == IF a < 0 THEN (IF ~F32IsZero(a) /\ Unpack(a).e >= 8 THEN MinI32
                              ELSE -F32TruncMag(a))
               ELSE F32TruncMag(a)
\* a as u32, as a bit pattern, for a below 2^31: negative values give 0.
F32ToU32(a) == IF a < 0 THEN 0 ELSE F32TruncMag(a)
\* (a as f64).floor() as i32 and (a as f64).ceil() as i32.
F32Floor(a) == IF a < 0 /\ ~F32IsInt(a) THEN -F32TruncMag(a) - 1 ELSE F32ToI32(a)
F32Ceil(a) == IF a >= 0 /\ ~F32IsInt(a) THEN F32TruncMag(a) + 1 ELSE F32ToI32(a)

\* The f32 q / 4, for an integer q: the model's coordinates are given in
\* quarters of a pixel.
Quarter(q) == RoundPack(q < 0, Abs(q), -2, FALSE)


(***************************************************************************)
(* vg/mod.rs: the buffer and the helpers shared by the two engines.        *)
(***************************************************************************)
\* SimdVec::new(len) and recycle(len): ceil(len / 4) zeroed blocks of four
\* 32-bit cells.
SimdLen(len) == 4 * ((len \div 4) + (IF (len % 4) # 0 THEN 1 ELSE 0))
SimdVecNew(len) == [i \in 0..(SimdLen(len) - 1) |-> 0]
\* A recycle that allocates len cells, not whole blocks of four.
recycle_exact(v, len) == [i \in 0..(len - 1) |-> 0]
\* A recycle that keeps the old cells when the length does not change.
recycle_keeps_cells(v, len) ==
    IF Cardinality(DOMAIN v) = SimdLen(len) THEN v ELSE SimdVecNew(len)
recycle(v, len) == [i \in 0..(SimdLen(len) - 1) |-> 0]
BufLen(buf) == Cardinality(DOMAIN buf)

\* A clamp without its upper limit.
clamp_below_only(i, width) == IF i < 0 THEN 0 ELSE i
clamp(i, width) == IF i < 0 THEN 0 ELSE IF i < width THEN i ELSE width

lerp(t, px, py, qx, qy) ==
    <<F32Add(px, F32Mul(t, F32Sub(qx, px))), F32Add(py, F32Mul(t, F32Sub(qy, py)))>>

dev_squared(ax, ay, bx, by, cx, cy) ==
    With(I32ToF32(2), LAMBDA two :
    With(F32Add(F32Sub(ax, F32Mul(two, bx)), cx), LAMBDA devx :
    With(F32Add(F32Sub(ay, F32Mul(two, by)), cy), LAMBDA devy :
    F32Add(F32Mul(devx, devx), F32Mul(devy, devy)))))

\* One `buf[i] += D as u32` behind its guard `i < buf.len()`, where buf is
\* the slice of the buffer that starts at cell off.  B is [buf, ovf]; ovf
\* collects what panics in a build with overflow checks: the arithmetic
\* that computed D (dovf) and the unsigned addition itself.
BufAdd(B, off, i, D, dovf) ==
    IF i < BufLen(B.buf) - off
    THEN [buf |-> [B.buf EXCEPT ![off + i] = U32Add(@, D)],
          ovf |-> B.ovf \/ dovf \/ U32AddOvf(B.buf[off + i], D)]
    ELSE B

(***************************************************************************)
(* vg/raster_fixed.rs.  Rust gives + and - a higher precedence than << and *)
(* >>, so `1<<ϕ + 1<<(ϕ-1)` is (1 << (ϕ+1)) << (ϕ-1), `1<<ϕ - 1` is       *)
(* 1 << (ϕ-1), and `(x+x_next)>>1 - x0floor` is (x+x_next) >> (1-x0floor). *)
(* The expressions below are grouped the way the compiler groups them.     *)
(***************************************************************************)
phi == 9
fxOne == Shl(1, phi)
fxOneAndAHalf == Shl(Shl(1, phi + 1), phi - 1)
fxOneMinusIota == Shl(1, phi - 1)

fixed_fmax(x, y) == IF x > y THEN x ELSE y
fixed_fmin(x, y) == IF x < y THEN x ELSE y
fixed_floor(x) == Shr(x, phi)
fixed_ceil(x) == Shr(WrapAdd(x, fxOneMinusIota), phi)

\* D *= d; D /= two_over_s; the value and what panics on the way.
MulDiv(D, d, two_over_s) == TruncDiv(WrapMul(D, d), two_over_s)
MulDivOvf(D, d, two_over_s) == MulOvf(D, d)

\* for xi in (x0i + 2)..(x1i - 1): buf[clamp(xi, width)] += d_times_s, the
\* n iterations from xi on, halved so that the evaluation stays shallow.
RECURSIVE FixedSpan(_, _, _, _, _, _)
FixedSpan(B, off, xi, n, d_times_s, width) ==
    IF n <= 0 THEN B
    ELSE IF n = 1 THEN BufAdd(B, off, clamp(xi, width), d_times_s, FALSE)
    ELSE With(FixedSpan(B, off, xi, n \div 2, d_times_s, width), LAMBDA B1 :
         FixedSpan(B1, off, xi + (n \div 2), n - (n \div 2), d_times_s, width))

\* buf[i] += D as u32 after `D *= d; D /= two_over_s`.
BufAddMulDiv(B, off, i, D, d, two_over_s, dovf) ==
    BufAdd(B, off, i, MulDiv(D, d, two_over_s), dovf \/ MulDivOvf(D, d, two_over_s))

\* The head of one pass through the loop body (lines 86-101), for a loop
\* state L = [buf, x, y, st] and the values P the loop does not change:
\* the values that both branches of line 103 use.
fixed_head(L, P) ==
    With(WrapSub(fixed_fmin(Shl(WrapAdd(1, L.y), phi), P.byphi),
                 fixed_fmax(Shl(L.y, phi), P.ayphi)), LAMBDA dy :
    With(F32ToI32(F32Mul(I32ToF32(dy), P.dxdy)), LAMBDA inc :
    With(WrapAdd(L.x, inc), LAMBDA x_next :
    LET x0 == IF L.x > x_next THEN x_next ELSE L.x
        x1 == IF L.x > x_next THEN L.x ELSE x_next
    IN [x |-> L.x, x_next |-> x_next, ovfNext |-> AddOvf(L.x, inc),
        d |-> WrapMul(dy, P.dir), ovfD |-> MulOvf(dy, P.dir),
        x0 |-> x0, x1 |-> x1,
        x0i |-> fixed_floor(x0),
        x1i |-> fixed_ceil(x1), ovfCeil |-> AddOvf(x1, fxOneMinusIota)])))

\* The branch `x1i <= x0i+1` of the loop body (lines 103-112): the segment
\* stays within one pixel column in this row.
fixed_narrow(B0, off, width, H) ==
    With(WrapSub(1, Shl(H.x0i, phi)), LAMBDA amount :
    With(Shr(WrapAdd(H.x, H.x_next), amount), LAMBDA xmf :
    [B |-> BufAdd(BufAdd([B0 EXCEPT !.ovf = @ \/ AddOvf(H.x, H.x_next)
                                              \/ ShiftOvf(amount)],
                         off, clamp(H.x0i + 0, width),
                         WrapMul(H.d, WrapSub(fxOne, xmf)),
                         SubOvf(fxOne, xmf) \/ MulOvf(H.d, WrapSub(fxOne, xmf))),
                  off, clamp(H.x0i + 1, width), WrapMul(H.d, xmf), MulOvf(H.d, xmf)),
     div |-> FALSE]))

\* The values computed at the head of the other branch (lines 114-121).
fixed_wide_values(H) ==
    With(WrapSub(H.x0, Shl(H.x0i, phi)), LAMBDA x0f :
    With(WrapAdd(WrapSub(H.x1, Shl(H.x1i, phi)), fxOne), LAMBDA x1f :
    LET one_over_s == WrapSub(H.x1, H.x0)
        one_minus_x0f == WrapSub(fxOne, x0f)
    IN [one_over_s |-> one_over_s,
        two_over_s |-> WrapMul(2, one_over_s),
        x0f |-> x0f,
        one_minus_x0f_squared |-> WrapMul(one_minus_x0f, one_minus_x0f),
        x1f |-> x1f,
        x1f_squared |-> WrapMul(x1f, x1f),
        ovf |-> SubOvf(H.x1, H.x0) \/ MulOvf(2, one_over_s)
                \/ MulOvf(one_minus_x0f, one_minus_x0f) \/ MulOvf(x1f, x1f)]))

\* The values D of one pass through the loop body, in the order of the
\* buffer updates of the branch taken (lines 104-111, or 134-266): D before
\* its `D *= d` (for lines 107 and 111 the factor of d), the product, and
\* ovf: whether a signed multiplication, subtraction or shift on the way
\* to the product left its range.
fixed_D(H) ==
    LET Term(D, dovf) == [D |-> D, prod |-> WrapMul(D, H.d),
                          ovf |-> dovf \/ MulOvf(D, H.d)]
    IN
    IF H.x1i <= H.x0i + 1
    THEN With(WrapSub(1, Shl(H.x0i, phi)), LAMBDA amount :
         With(Shr(WrapAdd(H.x, H.x_next), amount), LAMBDA xmf :
         <<Term(WrapSub(fxOne, xmf),
                AddOvf(H.x, H.x_next) \/ ShiftOvf(amount) \/ SubOvf(fxOne, xmf)),
           Term(xmf, FALSE)>>))
    ELSE With(fixed_wide_values(H), LAMBDA W :
         <<Term(W.one_minus_x0f_squared, W.ovf)>>
         \o (IF H.x1i = H.x0i + 2
             THEN With(WrapSub(WrapSub(phi, W.one_minus_x0f_squared), W.x1f_squared),
                       LAMBDA amt :
                  <<Term(Shl(W.two_over_s, amt), ShiftOvf(amt))>>)
             ELSE With(WrapSub(phi + 1, W.one_minus_x0f_squared), LAMBDA amt1 :
                  With(WrapAdd(1, Shl(Shl(1, (phi + 2) - fxOneAndAHalf), 1)), LAMBDA amt2 :
                  With(Shl(Shl(W.x1f, amt2), phi), LAMBDA D1 :
                  <<Term(Shl(WrapSub(fxOneAndAHalf, W.x0f), amt1), ShiftOvf(amt1)),
                    Term(WrapSub(D1, W.x1f_squared),
                         ShiftOvf((phi + 2) - fxOneAndAHalf) \/ ShiftOvf(amt2)
                         \/ SubOvf(D1, W.x1f_squared))>>))))
         \o <<Term(W.x1f_squared, FALSE)>>)

\* The cells strictly between the first and the last of a row that spans
\* several columns (lines 147-261).
fixed_middle(B1, off, width, H, W) ==
    IF H.x1i = H.x0i + 2
    THEN \* two_over_s<<ϕ - one_minus_x0f_squared - x1f_squared
         With(WrapSub(WrapSub(phi, W.one_minus_x0f_squared), W.x1f_squared), LAMBDA amt :
         BufAddMulDiv(B1, off, clamp(H.x0i + 1, width), Shl(W.two_over_s, amt),
                      H.d, W.two_over_s, ShiftOvf(amt)))
    ELSE \* (fxOneAndAHalf-x0f)<<(ϕ+1) - one_minus_x0f_squared, and
         \* x1f<<1 + (1<<(ϕ+2) - fxOneAndAHalf<<1)
         With(WrapSub(phi + 1, W.one_minus_x0f_squared), LAMBDA amt1 :
         With(WrapAdd(1, Shl(Shl(1, (phi + 2) - fxOneAndAHalf), 1)), LAMBDA amt2 :
         With(Shl(Shl(W.x1f, amt2), phi), LAMBDA D1 :
         BufAddMulDiv(
             FixedSpan(BufAddMulDiv(B1, off, clamp(H.x0i + 1, width),
                                    Shl(WrapSub(fxOneAndAHalf, W.x0f), amt1),
                                    H.d, W.two_over_s, ShiftOvf(amt1)),
                       off, H.x0i + 2, (H.x1i - 1) - (H.x0i + 2),
                       TruncDiv(Shl(H.d, 2 * phi), W.one_over_s), width),
             off, clamp(H.x1i - 1, width), WrapSub(D1, W.x1f_squared),
             H.d, W.two_over_s,
             ShiftOvf((phi + 2) - fxOneAndAHalf) \/ ShiftOvf(amt2)
             \/ SubOvf(D1, W.x1f_squared)))))

\* The branch `x1i > x0i+1` of the loop body (lines 113-269).
fixed_wide(B0, off, width, H) ==
    With(fixed_wide_values(H), LAMBDA W :
    [B |-> BufAddMulDiv(
               fixed_middle(
                   BufAddMulDiv([B0 EXCEPT !.ovf = @ \/ W.ovf],
                                off, clamp(H.x0i, width), W.one_minus_x0f_squared,
                                H.d, W.two_over_s, FALSE),
                   off, width, H, W),
               off, clamp(H.x1i, width), W.x1f_squared, H.d, W.two_over_s, FALSE),
     div |-> W.two_over_s = 0 \/ W.one_over_s = 0])

\* One pass through the body of the `while y < y_max` loop of
\* fixed_line_to (lines 85-271), for a loop state L = [buf, x, y, st] with
\* y < y_max, and the values P that the loop does not change.
fixed_row(L, P) ==
    With(fixed_head(L, P), LAMBDA H :
    IF L.y < 0
    THEN \* x = x_next; continue;  (y is not advanced)
         [L EXCEPT !.x = H.x_next,
                   !.st = IF P.chk /\ H.ovfNext THEN "panic" ELSE "ok"]
    ELSE
    LET B0 == [buf |-> L.buf, ovf |-> H.ovfNext \/ H.ovfD \/ H.ovfCeil]
    IN
    With(IF H.x1i <= H.x0i + 1
         THEN fixed_narrow(B0, L.y * P.width, P.width, H)
         ELSE fixed_wide(B0, L.y * P.width, P.width, H), LAMBDA res :
    IF res.div \/ (P.chk /\ res.B.ovf)
    THEN [L EXCEPT !.st = "panic"]
    ELSE [buf |-> res.B.buf, x |-> H.x_next, y |-> L.y + 1, st |-> "ok"]))

\* The `while y < y_max` loop from a loop state with y >= 0: at most n more
\* passes, stopping at the first one that panics.
RECURSIVE FixedLoop(_, _, _)
FixedLoop(L, P, n) ==
    IF n <= 0 \/ L.st # "ok" THEN L
    ELSE IF n = 1 THEN fixed_row(L, P)
    ELSE With(FixedLoop(L, P, n \div 2), LAMBDA L1 :
         FixedLoop(L1, P, n - (n \div 2)))

\* 0.000001f32, 1.0f32 .. as bit patterns.
Epsilon == 897988541
F32Zero == 0
F32Half == 1056964608
F32One == 1065353216
F32OneAndAHalf == 1069547520

\* The part of fixed_line_to before the loop (lines 55-82): the values the
\* loop keeps fixed and the loop's first state; horiz says that the
\* segment is discarded by the test of line 68.
FixedSetup(z, bx, by, chk) ==
    LET swap == F32Lt(by, z.pen[2])
        ax1  == IF swap THEN bx ELSE z.pen[1]
        ay1  == IF swap THEN by ELSE z.pen[2]
        bx1  == IF swap THEN z.pen[1] ELSE bx
        by1  == IF swap THEN z.pen[2] ELSE by
        one  == I32ToF32(fxOne)
    IN
    With(F32ToI32(F32Mul(ay1, one)), LAMBDA ayphi :
    With(F32ToI32(F32Mul(by1, one)), LAMBDA byphi :
    With(F32Le(F32Sub(by1, ay1), Epsilon), LAMBDA horiz :
    [horiz |-> horiz,
     ovf   |-> AddOvf(byphi, fxOneMinusIota),
     x     |-> F32ToI32(F32Mul(ax1, one)),
     y     |-> fixed_floor(ayphi),
     y_max |-> IF fixed_ceil(byphi) > z.size[2] THEN z.size[2] ELSE fixed_ceil(byphi),
     P     |-> [dir |-> IF swap THEN -1 ELSE 1,
                dxdy |-> IF horiz THEN F32Zero
                         ELSE F32Div(F32Sub(bx1, ax1), F32Sub(by1, ay1)),
                ayphi |-> ayphi, byphi |-> byphi,
                width |-> z.size[1], chk |-> chk]])))

\* fixed_line_to as a whole.  The result is [z, st]: st = "ok" when the
\* call returns, "panic" when it panics, "hang" when it never returns.  A
\* loop entered with y < 0 repeats the same pass for ever (line 89 skips
\* `y += 1`): x grows by the same amount each time, so the call hangs,
\* unless the additions are checked and the amount is not 0, in which case
\* x + amount overflows after finitely many passes.
fixed_line_to(z, bx, by, chk) ==
    LET zp == [z EXCEPT !.pen = <<bx, by>>]
    IN
    With(FixedSetup(z, bx, by, chk), LAMBDA S :
    LET L0 == [buf |-> z.buf, x |-> S.x, y |-> S.y, st |-> "ok"]
    IN
    IF S.horiz THEN [z |-> zp, st |-> "ok"]
    ELSE IF chk /\ S.ovf THEN [z |-> zp, st |-> "panic"]
    ELSE IF S.y >= S.y_max THEN [z |-> zp, st |-> "ok"]
    ELSE With(IF S.y < 0 THEN fixed_row(L0, S.P)
              ELSE FixedLoop(L0, S.P, S.y_max - S.y), LAMBDA L1 :
         IF S.y < 0
         THEN [z |-> zp, st |-> IF chk /\ L1.x # S.x THEN "panic" ELSE "hang"]
         ELSE [z |-> [zp EXCEPT !.buf = L1.buf], st |-> L1.st]))

\* fixed_accumulate_mask over the cells lo..hi, entered with the running
\* sum acc: the new cells in order, the sum at the end, and whether a
\* checked addition or negation overflowed.
RECURSIVE FixedAcc(_, _, _, _)
FixedAcc(buf, lo, hi, acc) ==
    IF lo > hi THEN [out |-> <<>>, acc |-> acc, ovf |-> FALSE]
    ELSE IF lo = hi
    THEN With(WrapAdd(acc, buf[lo]), LAMBDA acc1 :
         With(Shr(IF acc1 < 0 THEN WrapNeg(acc1) ELSE acc1, (2 * phi) - 16), LAMBDA a2 :
         [out |-> <<IF a2 > 65535 THEN 65535 ELSE a2>>, acc |-> acc1,
          ovf |-> AddOvf(acc, buf[lo]) \/ (acc1 < 0 /\ NegOvf(acc1))]))
    ELSE With(FixedAcc(buf, lo, (lo + hi) \div 2, acc), LAMBDA A :
         With(FixedAcc(buf, ((lo + hi) \div 2) + 1, hi, A.acc), LAMBDA B :
         [out |-> A.out \o B.out, acc |-> B.acc, ovf |-> A.ovf \/ B.ovf]))

\* An accumulator that forgets the running sum: each cell from its own delta.
fixed_accumulate_mask_no_sum(z, chk) ==
    [z |-> [z EXCEPT !.buf = [i \in DOMAIN z.buf |-> FixedAcc(z.buf, i, i, 0).out[1]]],
     st |-> "ok"]

fixed_accumulate_mask(z, chk) ==
    With(FixedAcc(z.buf, 0, BufLen(z.buf) - 1, 0), LAMBDA A :
    IF chk /\ A.ovf THEN [z |-> z, st |-> "panic"]
    ELSE [z |-> [z EXCEPT !.buf = [i \in DOMAIN z.buf |-> A.out[i + 1]]],
          st |-> "ok"])

(***************************************************************************)
(* vg/raster_floating.rs.  The cells hold f32 bit patterns.                *)
(***************************************************************************)
floating_fmax(x, y) == IF F32Lt(y, x) THEN x ELSE y
floating_fmin(x, y) == IF F32Lt(x, y) THEN x ELSE y
floating_floor(x) == F32Floor(x)
floating_ceil(x) == F32Ceil(x)

\* 0x477fffff, ALMOST256 * 256.0
ALMOST65536 == 1199570943

clamp_alpha(a) ==
    With(IF F32Lt(a, F32Zero) THEN F32Neg(a) ELSE a, LAMBDA a1 :
    IF F32Lt(F32One, a1) THEN F32One ELSE a1)

\* One `buf[i] += v` on f32 cells behind its guard `i < buf.len()`.
FBufAdd(buf, off, i, v) ==
    IF i < BufLen(buf) - off THEN [buf EXCEPT ![off + i] = F32Add(@, v)] ELSE buf

RECURSIVE FloatSpan(_, _, _, _, _, _)
FloatSpan(buf, off, xi, n, d_times_s, width) ==
    IF n <= 0 THEN buf
    ELSE IF n = 1 THEN FBufAdd(buf, off, clamp(xi, width), d_times_s)
    ELSE With(FloatSpan(buf, off, xi, n \div 2, d_times_s, width), LAMBDA b1 :
         FloatSpan(b1, off, xi + (n \div 2), n - (n \div 2), d_times_s, width))

\* The head of one pass through the loop body of floating_line_to (lines
\* 49-81), for a loop state L = [buf, x, y, st] and the values P that the
\* loop does not change.
floating_head(L, P) ==
    With(F32Sub(floating_fmin(I32ToF32(L.y + 1), P.by),
                floating_fmax(I32ToF32(L.y), P.ay)), LAMBDA dy :
    With(F32Add(L.x, F32Mul(dy, P.dxdy)), LAMBDA x_next :
    LET x0 == IF F32Lt(x_next, L.x) THEN x_next ELSE L.x
        x1 == IF F32Lt(x_next, L.x) THEN L.x ELSE x_next
    IN [x |-> L.x, x_next |-> x_next, d |-> F32Mul(dy, P.dir),
        x0 |-> x0, x1 |-> x1,
        x0i |-> floating_floor(x0), x1i |-> floating_ceil(x1)]))

\* The branch `x1i <= x0i+1` (lines 83-92).
floating_narrow(buf, off, width, H) ==
    With(F32Sub(F32Mul(F32Half, F32Add(H.x, H.x_next)), I32ToF32(H.x0i)), LAMBDA xmf :
    FBufAdd(FBufAdd(buf, off, clamp(H.x0i + 0, width), F32Sub(H.d, F32Mul(H.d, xmf))),
            off, clamp(H.x0i + 1, width), F32Mul(H.d, xmf)))

\* 0.5 * s * v * v, as lines 97 and 99 group it.
HalfSquare(s, v) == F32Mul(F32Mul(F32Mul(F32Half, s), v), v)

\* s, x0f, a0 and am of the other branch (lines 94-99).
floating_wide_values(H) ==
    With(F32Div(F32One, F32Sub(H.x1, H.x0)), LAMBDA s :
    With(F32Sub(H.x0, I32ToF32(H.x0i)), LAMBDA x0f :
    [s |-> s, x0f |-> x0f,
     a0 |-> HalfSquare(s, F32Sub(F32One, x0f)),
     am |-> HalfSquare(s, F32Add(F32Sub(H.x1, I32ToF32(H.x1i)), F32One))]))

\* The cells strictly between the first and the last (lines 106-131).
floating_middle(b1, off, width, H, W) ==
    IF H.x1i = H.x0i + 2
    THEN FBufAdd(b1, off, clamp(H.x0i + 1, width),
                 F32Mul(H.d, F32Sub(F32Sub(F32One, W.a0), W.am)))
    ELSE With(F32Mul(W.s, F32Sub(F32OneAndAHalf, W.x0f)), LAMBDA a1 :
         FBufAdd(
             FloatSpan(FBufAdd(b1, off, clamp(H.x0i + 1, width),
                               F32Mul(H.d, F32Sub(a1, W.a0))),
                       off, H.x0i + 2, (H.x1i - 1) - (H.x0i + 2),
                       F32Mul(H.d, W.s), width),
             off, clamp(H.x1i - 1, width),
             F32Mul(H.d, F32Sub(F32Sub(F32One,
                                       F32Add(a1, F32Mul(W.s, I32ToF32(H.x1i - H.x0i - 3)))),
                                W.am))))

\* The branch `x1i > x0i+1` (lines 93-137).
floating_wide(buf, off, width, H) ==
    With(floating_wide_values(H), LAMBDA W :
    FBufAdd(floating_middle(FBufAdd(buf, off, clamp(H.x0i, width), F32Mul(H.d, W.a0)),
                            off, width, H, W),
            off, clamp(H.x1i, width), F32Mul(H.d, W.am)))

\* One pass through the body of the loop of floating_line_to (lines
\* 49-140) for a loop state L = [buf, x, y, st] with y < y_max.
floating_row(L, P) ==
    With(floating_head(L, P), LAMBDA H :
    IF L.y < 0
    THEN [L EXCEPT !.x = H.x_next]
    ELSE [buf |-> IF H.x1i <= H.x0i + 1
                  THEN floating_narrow(L.buf, L.y * P.width, P.width, H)
                  ELSE floating_wide(L.buf, L.y * P.width, P.width, H),
          x |-> H.x_next, y |-> L.y + 1, st |-> "ok"])

RECURSIVE FloatLoop(_, _, _)
FloatLoop(L, P, n) ==
    IF n <= 0 THEN L
    ELSE IF n = 1 THEN floating_row(L, P)
    ELSE With(FloatLoop(L, P, n \div 2), LAMBDA L1 :
         FloatLoop(L1, P, n - (n \div 2)))

\* Lines 22-46 of floating_line_to.
FloatSetup(z, bx, by) ==
    LET swap == F32Lt(by, z.pen[2])
        ax1  == IF swap THEN bx ELSE z.pen[1]
        ay1  == IF swap THEN by ELSE z.pen[2]
        bx1  == IF swap THEN z.pen[1] ELSE bx
        by1  == IF swap THEN z.pen[2] ELSE by
    IN
    With(floating_ceil(by1), LAMBDA y_max0 :
    With(F32Le(F32Sub(by1, ay1), Epsilon), LAMBDA horiz :
    [horiz |-> horiz,
     x     |-> ax1,
     y     |-> floating_floor(ay1),
     y_max |-> IF y_max0 > z.size[2] THEN z.size[2] ELSE y_max0,
     P     |-> [dir |-> IF swap THEN F32Neg(F32One) ELSE F32One,
                dxdy |-> IF horiz THEN F32Zero
                         ELSE F32Div(F32Sub(bx1, ax1), F32Sub(by1, ay1)),
                ay |-> ay1, by |-> by1, width |-> z.size[1]]]))

\* floating_line_to as a whole; a loop entered with y < 0 never ends
\* (line 65 skips `y += 1`, and float additions do not panic).
floating_line_to(z, bx, by) ==
    LET zp == [z EXCEPT !.pen = <<bx, by>>]
    IN
    With(FloatSetup(z, bx, by), LAMBDA S :
    IF S.horiz \/ S.y >= S.y_max THEN [z |-> zp, st |-> "ok"]
    ELSE IF S.y < 0 THEN [z |-> zp, st |-> "hang"]
    ELSE [z |-> [zp EXCEPT !.buf = FloatLoop([buf |-> z.buf, x |-> S.x, y |-> S.y,
                                              st |-> "ok"],
                                             S.P, S.y_max - S.y).buf],
          st |-> "ok"])

RECURSIVE FloatAcc(_, _, _, _)
FloatAcc(buf, lo, hi, acc) ==
    IF lo > hi THEN [out |-> <<>>, acc |-> acc]
    ELSE IF lo = hi
    THEN With(F32Add(acc, buf[lo]), LAMBDA acc1 :
         [out |-> <<F32ToU32(F32Mul(ALMOST65536, clamp_alpha(acc1)))>>, acc |-> acc1])
    ELSE With(FloatAcc(buf, lo, (lo + hi) \div 2, acc), LAMBDA A :
         With(FloatAcc(buf, ((lo + hi) \div 2) + 1, hi, A.acc), LAMBDA B :
         [out |-> A.out \o B.out, acc |-> B.acc]))

floating_accumulate_mask(z) ==
    With(FloatAcc(z.buf, 0, BufLen(z.buf) - 1, F32Zero), LAMBDA A :
    [z |-> [z EXCEPT !.buf = [i \in DOMAIN z.buf |-> A.out[i + 1]]], st |-> "ok"])

(***************************************************************************)
(* Unsigned 32-bit arithmetic of the compositors, on bit patterns.         *)
(***************************************************************************)
\* The 32-bit product of two 16-bit values, as its two 16-bit halves.
Mul16(x, y) ==
    LET p1 == x * (y % 256)
        p2 == x * (y \div 256)
        s  == p1 + ((p2 % 256) * 256)
    IN [hi |-> (s \div Two16) + (p2 \div 256), lo |-> s % Two16]
U32Lt(a, b) == IF (a < 0) = (b < 0) THEN a < b ELSE b < 0
U32Mul(a, b) == WrapMul(a, b)
U32MulOvf(a, b) ==
    LET X == Mul16(Hi16(a), Lo16(b))
        Y == Mul16(Lo16(a), Hi16(b))
        Z == Mul16(Lo16(a), Lo16(b))
    IN (Hi16(a) > 0 /\ Hi16(b) > 0) \/ X.hi > 0 \/ Y.hi > 0
       \/ X.lo + Y.lo + Z.hi >= Two16
U32Sub(a, b) == WrapSub(a, b)
U32SubOvf(a, b) == U32Lt(a, b)
\* a / d for a divisor 2 <= d < 2^16.
U32Div(a, d) ==
    LET qh == Hi16(a) \div d
        r0 == Hi16(a) % d
        t1 == (r0 * 256) + (Lo16(a) \div 256)
        t2 == ((t1 % d) * 256) + (Lo16(a) % 256)
    IN (qh * Two16) + ((t1 \div d) * 256) + (t2 \div d)
\* (a >> 8) as u8
U32Shr8AsU8(a) == ((Hi16(a) * 256) + (Lo16(a) \div 256)) % 256

(***************************************************************************)
(* image.rs                                                                *)
(***************************************************************************)
Rectangle(x0, y0, x1, y1) == [min |-> [x |-> x0, y |-> y0], max |-> [x |-> x1, y |-> y1]]
from_size(w, h) == Rectangle(0, 0, w, h)
rect_dx(r) == r.max.x - r.min.x
rect_dy(r) == r.max.y - r.min.y
\* RGBA::new: 4*w*h zero bytes, stride 4*w.
RGBANew(r) == [pix |-> [i \in 0..((4 * rect_dx(r) * rect_dy(r)) - 1) |-> 0],
               stride |-> 4 * rect_dx(r), rect |-> r]
PixLen(dst) == Cardinality(DOMAIN dst.pix)
pix_offset(dst, x, y) == ((y - dst.rect.min.y) * dst.stride) + ((x - dst.rect.min.x) * 4)
\* RGBA::at
at(dst, x, y) ==
    IF ~(dst.rect.min.x <= x /\ x < dst.rect.max.x /\ dst.rect.min.y <= y /\ y < dst.rect.max.y)
    THEN <<0, 0, 0, 0>>
    ELSE LET i == pix_offset(dst, x, y)
         IN <<dst.pix[i + 0], dst.pix[i + 1], dst.pix[i + 2], dst.pix[i + 3]>>

(***************************************************************************)
(* vg/vector.rs                                                            *)
(***************************************************************************)
FPM_THRESHOLD == 512

new(w, h) ==
    [size |-> <<w, h>>, first |-> <<F32Zero, F32Zero>>, pen |-> <<F32Zero, F32Zero>>,
     draw_op |-> "Over", use_fpm |-> (w > FPM_THRESHOLD \/ h > FPM_THRESHOLD),
     buf |-> SimdVecNew(w * h)]

\* A reset that selects the floating engine from FPM_THRESHOLD on.
reset_selects_at_threshold(z, w, h, op) ==
    [size |-> <<w, h>>, first |-> <<F32Zero, F32Zero>>, pen |-> <<F32Zero, F32Zero>>,
     draw_op |-> op, use_fpm |-> (w >= FPM_THRESHOLD \/ h >= FPM_THRESHOLD),
     buf |-> [i \in 0..(SimdLen(w * h) - 1) |-> 0]]

\* A reset that forgets to move the pen back to the origin.
reset_keeps_pen(z, w, h, op) ==
    [size |-> <<w, h>>, first |-> <<F32Zero, F32Zero>>, pen |-> z.pen,
     draw_op |-> op, use_fpm |-> (w > FPM_THRESHOLD \/ h > FPM_THRESHOLD),
     buf |-> recycle(z.buf, w * h)]

reset(z, w, h, op) ==
    [size |-> <<w, h>>, first |-> <<F32Zero, F32Zero>>, pen |-> <<F32Zero, F32Zero>>,
     draw_op |-> op, use_fpm |-> (w > FPM_THRESHOLD \/ h > FPM_THRESHOLD),
     buf |-> recycle(z.buf, w * h)]

clear(z) == reset(z, z.size[1], z.size[2], "Over")

\* A move_to that starts the subpath at the old pen: it sets pen only.
move_to_pen_only(z, ax, ay) == [z EXCEPT !.pen = <<ax, ay>>]

move_to(z, ax, ay) == [z EXCEPT !.first = <<ax, ay>>, !.pen = <<ax, ay>>]

\* A line_to that moves the pen only when the segment is not discarded as
\* horizontal.
line_to_discards_pen(z, bx, by, chk) ==
    With(IF z.use_fpm THEN floating_line_to(z, bx, by) ELSE fixed_line_to(z, bx, by, chk),
         LAMBDA R :
    IF R.z.buf = z.buf THEN [R EXCEPT !.z.pen = z.pen] ELSE R)

line_to(z, bx, by, chk) ==
    IF z.use_fpm THEN floating_line_to(z, bx, by) ELSE fixed_line_to(z, bx, by, chk)

close_path(z, chk) == line_to(z, z.first[1], z.first[2], chk)

\* 0.333f32
Tolerance == 1051361018

\* 1 + (3.0 * devsq as f64).sqrt().sqrt() as isize: the largest k with
\* k^4 <= 3 * devsq, found on the integer part of 3 * devsq, plus one.
\* Beyond 214 the search stops: 215^4 is the last fourth power below 2^31.
MaxRoot == 214
Segments(devsq) ==
    With(Unpack(devsq), LAMBDA u :
    With(IF u.e >= 5 THEN MaxI32
         ELSE IF u.e >= 0 THEN 3 * u.m * Pow2(u.e)
         ELSE IF u.e < -30 THEN 0
         ELSE (3 * u.m) \div Pow2(-u.e), LAMBDA T :
    1 + (CHOOSE j \in 0..MaxRoot :
             /\ j * j * j * j <= T
             /\ (j = MaxRoot \/ (j + 1) * (j + 1) * (j + 1) * (j + 1) > T))))

\* lerp on points.
LerpPts(t, p, q) == lerp(t, p[1], p[2], q[1], q[2])

\* The point that one pass of the loop of quad_to hands to line_to, for the
\* control points A = <<a, b, c>>.
QuadPoint(t, A) == LerpPts(t, LerpPts(t, A[1], A[2]), LerpPts(t, A[2], A[3]))

\* The same for cube_to and A = <<a, b, c, d>>; (bcx, bcy) is used twice.
CubePoint(t, A) ==
    LerpPts(t, LerpPts(t, LerpPts(t, A[1], A[2]), LerpPts(t, A[2], A[3])),
               LerpPts(t, LerpPts(t, A[2], A[3]), LerpPts(t, A[3], A[4])))

\* The loop of quad_to with each point taken on the curve that starts at
\* the moving pen instead of the pen captured on entry.
RECURSIVE QuadLoopFromMovingPen(_, _, _, _, _)
QuadLoopFromMovingPen(S, n, n_inv, A, chk) ==
    IF n <= 0 \/ S.R.st # "ok" THEN S
    ELSE IF n = 1
    THEN With(F32Add(S.t, n_inv), LAMBDA t :
         With(QuadPoint(t, <<S.R.z.pen, A[2], A[3]>>), LAMBDA b :
         [R |-> line_to(S.R.z, b[1], b[2], chk), t |-> t]))
    ELSE With(QuadLoopFromMovingPen(S, n \div 2, n_inv, A, chk), LAMBDA S1 :
         QuadLoopFromMovingPen(S1, n - (n \div 2), n_inv, A, chk))

\* n passes of the `for _ in 0..n-1` loop of quad_to from the loop state
\* S = [R, t]: R is [z, st], t the parameter reached; A holds the three
\* control points.  Nothing happens once a line_to has not returned.
RECURSIVE QuadLoop(_, _, _, _, _)
QuadLoop(S, n, n_inv, A, chk) ==
    IF n <= 0 \/ S.R.st # "ok" THEN S
    ELSE IF n = 1
    THEN With(F32Add(S.t, n_inv), LAMBDA t :
         With(QuadPoint(t, A), LAMBDA b :
         [R |-> line_to(S.R.z, b[1], b[2], chk), t |-> t]))
    ELSE With(QuadLoop(S, n \div 2, n_inv, A, chk), LAMBDA S1 :
         QuadLoop(S1, n - (n \div 2), n_inv, A, chk))

quad_to(z, bx, by, cx, cy, chk) ==
    With(dev_squared(z.pen[1], z.pen[2], bx, by, cx, cy), LAMBDA devsq :
    With(Segments(devsq), LAMBDA n :
    With(IF F32Le(Tolerance, devsq)
         THEN QuadLoop([R |-> [z |-> z, st |-> "ok"], t |-> F32Zero], n - 1,
                       F32Div(F32One, I32ToF32(n)),
                       <<z.pen, <<bx, by>>, <<cx, cy>> >>, chk).R
         ELSE [z |-> z, st |-> "ok"], LAMBDA R :
    IF R.st # "ok" THEN R ELSE line_to(R.z, cx, cy, chk))))

\* The same for the loop of cube_to and its four control points.
RECURSIVE CubeLoop(_, _, _, _, _)
CubeLoop(S, n, n_inv, A, chk) ==
    IF n <= 0 \/ S.R.st # "ok" THEN S
    ELSE IF n = 1
    THEN With(F32Add(S.t, n_inv), LAMBDA t :
         With(CubePoint(t, A), LAMBDA b :
         [R |-> line_to(S.R.z, b[1], b[2], chk), t |-> t]))
    ELSE With(CubeLoop(S, n \div 2, n_inv, A, chk), LAMBDA S1 :
         CubeLoop(S1, n - (n \div 2), n_inv, A, chk))

cube_to(z, bx, by, cx, cy, ex, ey, chk) ==
    With(dev_squared(z.pen[1], z.pen[2], bx, by, ex, ey), LAMBDA devsq0 :
    With(dev_squared(z.pen[1], z.pen[2], cx, cy, ex, ey), LAMBDA devsq_alt :
    With(IF F32Lt(devsq0, devsq_alt) THEN devsq_alt ELSE devsq0, LAMBDA devsq :
    With(Segments(devsq), LAMBDA n :
    With(IF F32Le(Tolerance, devsq)
         THEN CubeLoop([R |-> [z |-> z, st |-> "ok"], t |-> F32Zero], n - 1,
                       F32Div(F32One, I32ToF32(n)),
                       <<z.pen, <<bx, by>>, <<cx, cy>>, <<ex, ey>> >>, chk).R
         ELSE [z |-> z, st |-> "ok"], LAMBDA R :
    IF R.st # "ok" THEN R ELSE line_to(R.z, ex, ey, chk))))))

accumulate_mask(z, chk) ==
    IF z.use_fpm THEN floating_accumulate_mask(z) ELSE fixed_accumulate_mask(z, chk)

\* rgba_uniform_over's byte with the mask taken as the source's coverage,
\* whatever its alpha: a = 0xffff - ma.
OverByteOfOpaqueSource(d, s, sa, ma) ==
    LET a   == U32Sub(65535, ma)
        da  == U32Mul(d * 257, a)
        sm  == U32Mul(s, ma)
        sum == U32Add(da, sm)
    IN [v   |-> U32Shr8AsU8(U32Div(sum, 65535)),
        ovf |-> U32SubOvf(65535, ma) \/ U32MulOvf(d * 257, a)
                \/ U32MulOvf(s, ma) \/ U32AddOvf(da, sm)]
\* One destination byte of rgba_uniform_over (lines 316-321): d is the
\* byte, s the colour component, ma the mask cell; v is the byte stored and
\* ovf says whether a checked u32 operation overflowed.
OverByte(d, s, sa, ma) ==
    LET q   == U32Div(U32Mul(sa, ma), 65535)
        a   == U32Sub(65535, q)
        da  == U32Mul(d * 257, a)
        sm  == U32Mul(s, ma)
        sum == U32Add(da, sm)
    IN [v   |-> U32Shr8AsU8(U32Div(sum, 65535)),
        ovf |-> U32MulOvf(sa, ma) \/ U32SubOvf(65535, q) \/ U32MulOvf(d * 257, a)
                \/ U32MulOvf(s, ma) \/ U32AddOvf(da, sm)]

\* One destination byte of rgba_uniform_src (lines 342-345).
SrcByte(s, ma) ==
    [v |-> U32Shr8AsU8(U32Div(U32Mul(s, ma), 65535)), ovf |-> U32MulOvf(s, ma)]

\* The colour component that byte c (0..3) of a pixel is computed from:
\* pix[i+0] from sr, pix[i+1] from sg, pix[i+2] from sb, pix[i+3] from sa.
Component(color, c) == color[c + 1]

\* The loop for one y indexing the whole of dst.pix rather than the slice
\* that starts at the rectangle's first byte.
CompositeRowOfWholePix(C, z, base, stride, x1, y, color, chk, over) ==
    LET start == y * stride
        Byte(k) == LET ma == z.buf[(y * z.size[1]) + (k \div 4)]
                   IN IF over
                      THEN OverByte(C.pix[start + k], Component(color, k % 4), color[4], ma)
                      ELSE SrcByte(Component(color, k % 4), ma)
    IN [pix |-> [j \in DOMAIN C.pix |->
                    IF start <= j /\ j < start + (4 * x1) THEN Byte(j - start).v
                    ELSE C.pix[j]],
        ovf |-> C.ovf \/ (chk /\ \E k \in 0..((4 * x1) - 1) : Byte(k).ovf)]

\* The `for x in 0..x1` loop for one y: C = [pix, ovf], base the offset of
\* the rectangle's first byte, over says which compositor runs; ovf is
\* whether an overflow check has failed (chk: the build has them).
CompositeRow(C, z, base, stride, x1, y, color, chk, over) ==
    LET start == base + (y * stride)
        Byte(k) == LET ma == z.buf[(y * z.size[1]) + (k \div 4)]
                   IN IF over
                      THEN OverByte(C.pix[start + k], Component(color, k % 4), color[4], ma)
                      ELSE SrcByte(Component(color, k % 4), ma)
    IN [pix |-> [j \in DOMAIN C.pix |->
                    IF start <= j /\ j < start + (4 * x1) THEN Byte(j - start).v
                    ELSE C.pix[j]],
        ovf |-> C.ovf \/ (chk /\ \E k \in 0..((4 * x1) - 1) : Byte(k).ovf)]

\* The `for y in 0..y1` loop, n rows from row y on.
RECURSIVE CompositeRows(_, _, _, _, _, _, _, _, _, _)
CompositeRows(C, z, base, stride, x1, y, n, color, chk, over) ==
    IF n <= 0 \/ x1 <= 0 THEN C
    ELSE IF n = 1 THEN CompositeRow(C, z, base, stride, x1, y, color, chk, over)
    ELSE With(CompositeRows(C, z, base, stride, x1, y, n \div 2, color, chk, over),
              LAMBDA C1 :
         CompositeRows(C1, z, base, stride, x1, y + (n \div 2), n - (n \div 2),
                       color, chk, over))

\* rgba_uniform_over and rgba_uniform_src as a whole; the result is
\* [z, dst, st].  A slice or an index out of range panics in every build,
\* an overflowing u32 operation in a build with overflow checks.
Composite(z, dst, r, color, chk, over) ==
    LET idx == pix_offset(dst, r.min.x, r.min.y)
        x1  == r.max.x - r.min.x
        y1  == r.max.y - r.min.y
        outside == \E y \in 0..(y1 - 1) : \E x \in 0..(x1 - 1) :
                       \/ (y * z.size[1]) + x >= BufLen(z.buf)
                       \/ idx + (y * dst.stride) + (4 * x) + 3 >= PixLen(dst)
    IN
    With(accumulate_mask(z, chk), LAMBDA A :
    IF A.st # "ok" THEN [z |-> A.z, dst |-> dst, st |-> A.st]
    ELSE IF idx < 0 \/ idx > PixLen(dst) \/ outside
    THEN [z |-> A.z, dst |-> dst, st |-> "panic"]
    ELSE With(CompositeRows([pix |-> dst.pix, ovf |-> FALSE], A.z, idx, dst.stride,
                            x1, 0, y1, color, chk, over), LAMBDA C :
         IF C.ovf THEN [z |-> A.z, dst |-> dst, st |-> "panic"]
         ELSE [z |-> A.z, dst |-> [dst EXCEPT !.pix = C.pix], st |-> "ok"]))

rgba_uniform_over(z, dst, r, color, chk) == Composite(z, dst, r, color, chk, TRUE)
rgba_uniform_src(z, dst, r, color, chk) == Composite(z, dst, r, color, chk, FALSE)

(***************************************************************************)
(* geom.rs: the fixed-point numbers I26_6 (an i32 with 6 fraction bits)    *)
(* and I52_12 (an i64 with 12 fraction bits).  An i64 is written as its    *)
(* limbs <<hi, mid, lo>>: hi the upper 32 bits as an i32, mid and lo the   *)
(* two lower 16-bit halves; its value is hi * 2^32 + mid * 2^16 + lo.      *)
(* The isize results are those of a 64-bit target.                         *)
(***************************************************************************)
Shift26 == 6
Shift52 == 12

I26_6_floor(v) == Shr(v, Shift26)
I26_6_round(v) == Shr(WrapAdd(v, Pow2(Shift26) - 1), Shift26)
I26_6_ceil(v) == Shr(WrapSub(WrapAdd(v, Pow2(Shift26)), 1), Shift26)

\* i64::wrapping_add(X, k) for 0 <= k < 2^16, and X.wrapping_sub(1).
I64WrappingAdd(X, k) ==
    <<WrapAdd(X[1], (X[2] + ((X[3] + k) \div Two16)) \div Two16),
      (X[2] + ((X[3] + k) \div Two16)) % Two16,
      (X[3] + k) % Two16>>
I64WrappingSubOne(X) ==
    IF X[3] > 0 THEN <<X[1], X[2], X[3] - 1>>
    ELSE IF X[2] > 0 THEN <<X[1], X[2] - 1, Two16 - 1>>
    ELSE <<WrapSub(X[1], 1), Two16 - 1, Two16 - 1>>
\* X >> n for 0 < n < 16, an arithmetic shift.
I64Shr(X, n) ==
    <<X[1] \div Pow2(n),
      ((X[1] % Pow2(n)) * Pow2(16 - n)) + (X[2] \div Pow2(n)),
      ((X[2] % Pow2(n)) * Pow2(16 - n)) + (X[3] \div Pow2(n))>>

I52_12_floor(X) == I64Shr(X, Shift52)
I52_12_round(X) == I64Shr(I64WrappingAdd(X, Pow2(Shift52) - 1), Shift52)
I52_12_ceil(X) == I64Shr(I64WrappingSubOne(I64WrappingAdd(X, Pow2(Shift52))), Shift52)

\* The wider integers of mul, i64 and i128, in two's complement: a sequence
\* of n bytes, the most significant first.  WideDigit(ds, j) is the byte of
\* weight 256^j.
WideDigit(ds, j) == ds[Len(ds) - j]
\* The first n values of f as a sequence.
RECURSIVE Bytes(_, _)
Bytes(f, n) == IF n = 0 THEN <<>> ELSE Append(Bytes(f, n - 1), f[n])
WideSign(ds) == IF ds[1] >= 128 THEN 255 ELSE 0
\* `self.0 as $outer` for an i32 and for an i64 given by its limbs: the sign
\* is extended to n bytes.
WideOfI32(v, n) ==
    Bytes([i \in 1..n |-> IF i <= n - 4 THEN (IF v < 0 THEN 255 ELSE 0)
                    ELSE (v \div Pow2(8 * (n - i))) % 256], n)
WideOfI64(X, n) ==
    Bytes([i \in 1..n |-> IF i <= n - 8 THEN (IF X[1] < 0 THEN 255 ELSE 0)
                    ELSE IF i <= n - 4 THEN (X[1] \div Pow2(8 * (n - 4 - i))) % 256
                    ELSE IF i <= n - 2 THEN (X[2] \div Pow2(8 * (n - 2 - i))) % 256
                    ELSE (X[3] \div Pow2(8 * (n - i))) % 256], n)
\* `value as $inner`: the low 4 bytes as an i32, the low 8 bytes as the limbs
\* of an i64.
I32OfWide(ds) ==
    ((IF WideDigit(ds, 3) >= 128 THEN WideDigit(ds, 3) - 256 ELSE WideDigit(ds, 3)) * Two24)
    + (WideDigit(ds, 2) * Two16) + (WideDigit(ds, 1) * 256) + WideDigit(ds, 0)
I64OfWide(ds) ==
    <<((IF WideDigit(ds, 7) >= 128 THEN WideDigit(ds, 7) - 256 ELSE WideDigit(ds, 7)) * Two24)
      + (WideDigit(ds, 6) * Two16) + (WideDigit(ds, 5) * 256) + WideDigit(ds, 4),
      (WideDigit(ds, 3) * 256) + WideDigit(ds, 2),
      (WideDigit(ds, 1) * 256) + WideDigit(ds, 0)>>
\* as * bs, the low n bytes: column j of the long multiplication is the sum
\* of the products as[i] * bs[j - i].  The operands of mul are sign
\* extensions of half the width, so the product is in range and no build
\* fails here.
RECURSIVE WideColumn(_, _, _, _)
WideColumn(as, bs, j, i) ==
    IF i > j THEN 0
    ELSE (WideDigit(as, i) * WideDigit(bs, j - i)) + WideColumn(as, bs, j, i + 1)
RECURSIVE WideMulCarry(_, _, _)
WideMulCarry(as, bs, j) ==
    IF j < 0 THEN 0 ELSE (WideColumn(as, bs, j, 0) + WideMulCarry(as, bs, j - 1)) \div 256
WideMul(as, bs) ==
    Bytes([i \in 1..Len(as) |->
              (WideColumn(as, bs, Len(as) - i, 0)
               + WideMulCarry(as, bs, Len(as) - i - 1)) % 256],
          Len(as))
\* ds + k for 0 <= k < 2^16.
RECURSIVE WideAddCarry(_, _, _)
WideAddCarry(ds, k, j) ==
    IF j < 0 THEN k ELSE (WideDigit(ds, j) + WideAddCarry(ds, k, j - 1)) \div 256
WideAdd(ds, k) ==
    Bytes([i \in 1..Len(ds) |-> (ds[i] + WideAddCarry(ds, k, Len(ds) - i - 1)) % 256],
          Len(ds))
\* ds << k for 0 <= k < 16: the bits shifted out at the top are lost, in
\* every build.
RECURSIVE WideShlCarry(_, _, _)
WideShlCarry(ds, k, j) ==
    IF j < 0 THEN 0 ELSE ((WideDigit(ds, j) * Pow2(k)) + WideShlCarry(ds, k, j - 1)) \div 256
WideShl(ds, k) ==
    Bytes([i \in 1..Len(ds) |->
              ((ds[i] * Pow2(k)) + WideShlCarry(ds, k, Len(ds) - i - 1)) % 256],
          Len(ds))
\* ds >> k for 0 <= k < 16, an arithmetic shift.
WideShr(ds, k) ==
    LET Ext(j) == IF j < Len(ds) THEN WideDigit(ds, j) ELSE WideSign(ds)
        q == k \div 8
        r == k % 8
    IN Bytes([i \in 1..Len(ds) |->
           ((Ext(Len(ds) - i + q + 1) % Pow2(r)) * Pow2(8 - r))
           + (Ext(Len(ds) - i + q) \div Pow2(r))], Len(ds))

\* mul (lines 97-102): `x * y + 1<<($shift-1)` is (x * y + 1) << ($shift - 1),
\* + binding tighter than <<.
I26_6_mul(a, b) ==
    I32OfWide(WideShr(WideShl(WideAdd(WideMul(WideOfI32(a, 8), WideOfI32(b, 8)), 1),
                              Shift26 - 1), Shift26))
I52_12_mul(X, Y) ==
    I64OfWide(WideShr(WideShl(WideAdd(WideMul(WideOfI64(X, 16), WideOfI64(Y, 16)), 1),
                              Shift52 - 1), Shift52))

(***************************************************************************)
(* lib.rs: Canvas::fill stores the same 32-bit colour in every pixel.      *)
(***************************************************************************)
fill(dst, bytes) == [dst EXCEPT !.pix = [j \in DOMAIN dst.pix |-> bytes[(j % 4) + 1]]]

(***************************************************************************)
(* The state machine: a client that owns one Rasterizer and one            *)
(* destination image and calls the operations.                             *)
(*   z                the Rasterizer                                       *)
(*   dst              the destination image                                *)
(*   status           "ok", or "panic"/"hang" once a call has panicked or  *)
(*                    failed to return; nothing happens after that         *)
(*   overflow_checks  whether the build checks integer overflow (a debug   *)
(*                    build) or wraps (a release build)                    *)
(*   last             the most recent call: its name and arguments         *)
(*   path             the calls made since the last new/reset/clear        *)
(*   dst0             the destination at the last new/reset/clear          *)
(*   cycles           the number of reset/clear calls so far               *)
(*   loop             the position inside a running line_to, for the       *)
(*                    specification that takes line_to one row at a time   *)
(*   plan             the calls the client is going to make, for the       *)
(*                    specification whose client draws one given figure;   *)
(*                    empty for a client that may call anything            *)
(*   num              the fixed-point number of geom.rs last examined and  *)
(*                    what its methods returned, for the specification of  *)
(*                    geom.rs                                              *)
(***************************************************************************)
VARIABLES z, dst, status, overflow_checks, last, path, dst0, cycles, loop, plan, num
vars == <<z, dst, status, overflow_checks, last, path, dst0, cycles, loop, plan, num>>

NoLoop == [on |-> FALSE]
NoNum == [ty |-> "none"]
Pt(qx, qy) == <<Quarter(qx), Quarter(qy)>>
Call(op, args) == [op |-> op, args |-> args]

\* The state after Rasterizer::new(s) and RGBA::new for a destination of size
\* d, in either build, for a client that is going to make the calls p.
InitAt(s, d, p) ==
    /\ overflow_checks \in BOOLEAN
    /\ z = new(s[1], s[2])
    /\ dst = RGBANew(from_size(d[1], d[2]))
    /\ status = "ok"
    /\ last = Call("new", <<>>)
    /\ path = <<>>
    /\ dst0 = dst
    /\ cycles = 0
    /\ loop = NoLoop
    /\ plan = p
    /\ num = NoNum

InitWith(sizes, dsizes) == \E s \in sizes, d \in dsizes : InitAt(s, d, <<>>)

\* The state of a client that is going to call a function of numbers on one
\* of the inputs ins: num holds the input.
InitNum(ins) ==
    /\ overflow_checks \in BOOLEAN
    /\ z = new(1, 1)
    /\ dst = RGBANew(from_size(1, 1))
    /\ status = "ok"
    /\ last = Call("new", <<>>)
    /\ path = <<>>
    /\ dst0 = dst
    /\ cycles = 0
    /\ loop = NoLoop
    /\ plan = <<>>
    /\ num \in ins

\* A call that returns [z, st], recorded as op with arguments args.
PathCall(op, args, R) ==
    /\ z' = R.z
    /\ status' = R.st
    /\ last' = Call(op, args)
    /\ path' = Append(path, <<op, args>>)
    /\ UNCHANGED <<dst, overflow_checks, dst0, cycles, loop, plan, num>>

Reset(sizes, ops) ==
    /\ status = "ok"
    /\ \E s \in sizes, op \in ops :
         /\ z' = reset(z, s[1], s[2], op)
         /\ last' = Call("reset", <<s[1], s[2], op>>)
    /\ path' = <<>>
    /\ dst0' = dst
    /\ cycles' = cycles + 1
    /\ UNCHANGED <<dst, status, overflow_checks, loop, plan, num>>

Clear ==
    /\ status = "ok"
    /\ z' = clear(z)
    /\ last' = Call("clear", <<>>)
    /\ path' = <<>>
    /\ dst0' = dst
    /\ cycles' = cycles + 1
    /\ UNCHANGED <<dst, status, overflow_checks, loop, plan, num>>

MoveTo(pts) ==
    /\ status = "ok"
    /\ \E a \in pts : PathCall("move_to", <<a>>, [z |-> move_to(z, a[1], a[2]), st |-> "ok"])

LineTo(pts) ==
    /\ status = "ok"
    /\ \E b \in pts : PathCall("line_to", <<b>>, line_to(z, b[1], b[2], overflow_checks))

QuadTo(ctl, pts) ==
    /\ status = "ok"
    /\ \E b \in ctl, c \in pts :
         PathCall("quad_to", <<b, c>>, quad_to(z, b[1], b[2], c[1], c[2], overflow_checks))

CubeTo(ctl1, ctl2, pts) ==
    /\ status = "ok"
    /\ \E b \in ctl1, c \in ctl2, d \in pts :
         PathCall("cube_to", <<b, c, d>>,
                  cube_to(z, b[1], b[2], c[1], c[2], d[1], d[2], overflow_checks))

ClosePath ==
    /\ status = "ok"
    /\ PathCall("close_path", <<>>, close_path(z, overflow_checks))

\* A call of a compositor, which returns [z, dst, st].
CompositeCall(op, r, color, R) ==
    /\ z' = R.z
    /\ dst' = R.dst
    /\ status' = R.st
    /\ last' = Call(op, <<r, color>>)
    /\ path' = Append(path, <<op, <<r, color>> >>)
    /\ UNCHANGED <<overflow_checks, dst0, cycles, loop, plan, num>>

Over(rects, colors) ==
    /\ status = "ok"
    /\ \E r \in rects, color \in colors :
         CompositeCall("rgba_uniform_over", r, color,
                       rgba_uniform_over(z, dst, r, color, overflow_checks))

Src(rects, colors) ==
    /\ status = "ok"
    /\ \E r \in rects, color \in colors :
         CompositeCall("rgba_uniform_src", r, color,
                       rgba_uniform_src(z, dst, r, color, overflow_checks))

Fill(fills) ==
    /\ status = "ok"
    /\ \E c \in fills : /\ dst' = fill(dst, c)
                        /\ last' = Call("fill", <<c>>)
                        /\ path' = Append(path, <<"fill", <<c>> >>)
    /\ UNCHANGED <<z, status, overflow_checks, dst0, cycles, loop, plan, num>>

\* The call c = <<op, args>> made on R = [z, dst, st], as the actions above
\* make it.
ApplyCall(R, c, chk) ==
    IF R.st # "ok" THEN R
    ELSE IF c[1] = "move_to"
    THEN [R EXCEPT !.z = move_to(R.z, c[2][1][1], c[2][1][2])]
    ELSE IF c[1] = "fill" THEN [R EXCEPT !.dst = fill(R.dst, c[2][1])]
    ELSE IF c[1] = "rgba_uniform_over"
    THEN rgba_uniform_over(R.z, R.dst, c[2][1], c[2][2], chk)
    ELSE IF c[1] = "rgba_uniform_src"
    THEN rgba_uniform_src(R.z, R.dst, c[2][1], c[2][2], chk)
    ELSE With(IF c[1] = "line_to" THEN line_to(R.z, c[2][1][1], c[2][1][2], chk)
              ELSE IF c[1] = "quad_to"
              THEN quad_to(R.z, c[2][1][1], c[2][1][2], c[2][2][1], c[2][2][2], chk)
              ELSE IF c[1] = "cube_to"
              THEN cube_to(R.z, c[2][1][1], c[2][1][2], c[2][2][1], c[2][2][2],
                           c[2][3][1], c[2][3][2], chk)
              ELSE close_path(R.z, chk), LAMBDA r :
         [z |-> r.z, dst |-> R.dst, st |-> r.st])

\* The calls from the k-th on, made in order.
RECURSIVE ApplyCalls(_, _, _, _)
ApplyCalls(R, calls, k, chk) ==
    IF k > Len(calls) THEN R
    ELSE With(ApplyCall(R, calls[k], chk), LAMBDA R1 : ApplyCalls(R1, calls, k + 1, chk))

(***************************************************************************)
(* Spec: draw cycles on a small fixed-engine mask.  Coordinates are given  *)
(* in quarters of a pixel; the sets hold points inside the mask, on its    *)
(* edge and outside it.                                                    *)
(***************************************************************************)
MaxOps == 2
MaxCycles == 2
MaskW == 4
MaskH == 3
Sizes == {<<MaskW, MaskH>>}
MovePts == {Pt(2, 2)}
LinePts == {Pt(14, 2), Pt(5, 10), Pt(22, 14), Pt(6, -4)}
CtlPts == {Pt(16, 8)}
CurveEnds == {Pt(5, 10)}
Colors == {<<65535, 32768, 0, 65535>>}
Rects == {from_size(MaskW, MaskH)}
Fills == {<<0, 128, 255, 255>>}

Init == InitWith(Sizes, Sizes)

\* The client may start another draw cycle, or add a call to this one.
Again == cycles < MaxCycles
More == Len(path) < MaxOps

Next ==
    \/ Again /\ Clear
    \/ Again /\ Reset(Sizes, {"Src"})
    \/ More /\ MoveTo(MovePts)
    \/ More /\ LineTo(LinePts)
    \/ More /\ QuadTo(CtlPts, CurveEnds)
    \/ More /\ CubeTo(CtlPts, MovePts, CurveEnds)
    \/ More /\ ClosePath
    \/ More /\ Over(Rects, Colors)
    \/ More /\ Src(Rects, Colors)
    \/ More /\ Fill(Fills)

Spec == Init /\ [][Next]_vars

(***************************************************************************)
(* SpecRows: line_to taken one pass of its `while y < y_max` loop at a     *)
(* time, on a fixed-engine and on a floating-engine mask.  loop holds the  *)
(* loop's state L and the values P it keeps, the engine, y_max, the number *)
(* of passes made so far (steps), min(ceil(by), height) - floor(ay)       *)
(* (bound) and, in the fixed engine, the sum of the dy of line 85 over the *)
(* passes made (dys).                                                      *)
(***************************************************************************)
\* line_to up to the test of its loop: the call returns at once, panics, or
\* enters the loop.  The pen is set first (raster_fixed.rs:56,
\* raster_floating.rs:23).
LineStart(zz, bx, by, chk) ==
    LET zp == [zz EXCEPT !.pen = <<bx, by>>]
    IN
    With(IF zz.use_fpm THEN FloatSetup(zz, bx, by) ELSE FixedSetup(zz, bx, by, chk),
         LAMBDA S :
    IF S.horiz THEN [z |-> zp, st |-> "ok", loop |-> NoLoop]
    ELSE IF ~zz.use_fpm /\ chk /\ S.ovf THEN [z |-> zp, st |-> "panic", loop |-> NoLoop]
    ELSE IF S.y >= S.y_max THEN [z |-> zp, st |-> "ok", loop |-> NoLoop]
    ELSE [z |-> zp, st |-> "ok",
          loop |-> [on |-> TRUE, fpm |-> zz.use_fpm,
                    L |-> [buf |-> zz.buf, x |-> S.x, y |-> S.y, st |-> "ok"],
                    P |-> S.P, y_max |-> S.y_max, steps |-> 0,
                    bound |-> S.y_max - S.y, dys |-> 0]])

Idle == ~loop.on

BeginLineTo(pts) ==
    /\ status = "ok"
    /\ Idle
    /\ \E b \in pts :
         /\ z' = LineStart(z, b[1], b[2], overflow_checks).z
         /\ status' = LineStart(z, b[1], b[2], overflow_checks).st
         /\ loop' = LineStart(z, b[1], b[2], overflow_checks).loop
         /\ last' = Call("line_to", <<b>>)
         /\ path' = Append(path, <<"line_to", <<b>> >>)
    /\ UNCHANGED <<dst, overflow_checks, dst0, cycles, plan, num>>

\* One pass through the loop body.  A loop that never ends is followed for
\* RowSlack passes beyond the bound.
RowSlack == 2
RowStep ==
    /\ status = "ok"
    /\ loop.on
    /\ loop.L.y < loop.y_max
    /\ loop.steps < loop.bound + RowSlack
    /\ loop' = [loop EXCEPT !.L = IF loop.fpm THEN floating_row(loop.L, loop.P)
                                  ELSE fixed_row(loop.L, loop.P),
                            !.steps = @ + 1,
                            !.dys = IF loop.fpm THEN @
                                    ELSE @ + (fixed_head(loop.L, loop.P).d * loop.P.dir)]
    /\ status' = loop'.L.st
    /\ UNCHANGED <<z, dst, overflow_checks, last, path, dst0, cycles, plan, num>>

\* The loop's test fails: the call returns.
EndLineTo ==
    /\ status = "ok"
    /\ loop.on
    /\ loop.L.y >= loop.y_max
    /\ z' = [z EXCEPT !.buf = loop.L.buf]
    /\ loop' = NoLoop
    /\ UNCHANGED <<dst, status, overflow_checks, last, path, dst0, cycles, plan, num>>

MaxRowOps == 3
RowSizes == {<<4, 3>>, <<513, 2>>}
RowMovePts == {Pt(2, 2), Pt(6, -6), Pt(26, 2), Pt(2054, 2)}
RowLinePts == {Pt(5, 10), Pt(6, -4), Pt(14, 18), Pt(5, 9), Pt(14, 4), Pt(2, 2)}

InitRows == InitWith(RowSizes, {<<1, 1>>})

NextRows ==
    \/ Idle /\ Len(path) < MaxRowOps /\ MoveTo(RowMovePts)
    \/ Len(path) < MaxRowOps /\ BeginLineTo(RowLinePts)
    \/ RowStep
    \/ EndLineTo

SpecRows == InitRows /\ [][NextRows]_vars

(***************************************************************************)
(* SpecCurves: a client that starts a path and adds Bézier segments, on a  *)
(* fixed-engine and on a floating-engine mask.  The control points range   *)
(* from nearly flat curves (one chord) to curves flattened into 4, 6 and 7 *)
(* chords.                                                                 *)
(***************************************************************************)
MaxCurveOps == 2
CurveSizes == {<<4, 3>>, <<513, 2>>}
CurveMovePts == {Pt(2, 2), Pt(8, 4)}
CurveCtlPts == {Pt(3, 3), Pt(16, 8), Pt(36, 2), Pt(48, 2)}
CurveCtl2Pts == {Pt(40, 6)}
CurveEndPts == {Pt(5, 10), Pt(2, 2)}

InitCurves == InitWith(CurveSizes, {<<1, 1>>})

NextCurves ==
    \/ Len(path) < MaxCurveOps /\ MoveTo(CurveMovePts)
    \/ Len(path) < MaxCurveOps /\ QuadTo(CurveCtlPts, CurveEndPts)
    \/ Len(path) < MaxCurveOps /\ CubeTo(CurveCtlPts, CurveCtl2Pts, CurveEndPts)

SpecCurves == InitCurves /\ [][NextCurves]_vars

(***************************************************************************)
(* SpecPlan: a client that draws one figure: it makes the calls of its     *)
(* plan in order and stops.                                                *)
(***************************************************************************)
Planned(op) == Len(path) < Len(plan) /\ plan[Len(path) + 1][1] = op
PlanArg(i) == plan[Len(path) + 1][2][i]

NextPlan ==
    \/ Planned("move_to") /\ MoveTo({PlanArg(1)})
    \/ Planned("line_to") /\ LineTo({PlanArg(1)})
    \/ Planned("close_path") /\ ClosePath
    \/ Planned("rgba_uniform_src") /\ Src({PlanArg(1)}, {PlanArg(2)})
    \/ Planned("rgba_uniform_over") /\ Over({PlanArg(1)}, {PlanArg(2)})

\* Calls with whole-pixel coordinates.
PMove(x, y) == <<"move_to", <<Pt(4 * x, 4 * y)>> >>
PLine(x, y) == <<"line_to", <<Pt(4 * x, 4 * y)>> >>
PClose == <<"close_path", <<>> >>
PSrc(w, h, color) == <<"rgba_uniform_src", <<from_size(w, h), color>> >>
POver(w, h, color) == <<"rgba_uniform_over", <<from_size(w, h), color>> >>

White == <<65535, 65535, 65535, 65535>>
Blue == <<0, 0, 65535, 65535>>

\* The square with corners (lo, lo) and (hi, hi) on an n x n mask, filled
\* with Blue.
SquarePlan(n, lo, hi) ==
    [size |-> <<n, n>>, dsize |-> <<n, n>>,
     calls |-> <<PMove(lo, lo), PLine(hi, lo), PLine(hi, hi), PLine(lo, hi), PClose,
                 PSrc(n, n, Blue)>>]

\* A triangle given in quarters of a pixel on a w x h mask.
TrianglePlan(w, h, a, b, c) ==
    [size |-> <<w, h>>, dsize |-> <<w, h>>,
     calls |-> <<<<"move_to", <<a>> >>, <<"line_to", <<b>> >>, <<"line_to", <<c>> >>,
                 PClose, PSrc(w, h, White)>>]

\* n times down the line x = WindX of a mask one row high, then a
\* compositor.
WindW == 260
WindX == 257
WindTurns == 32
RECURSIVE Turns(_)
Turns(n) == IF n = 0 THEN <<>> ELSE <<PMove(WindX, 0), PLine(WindX, 1)>> \o Turns(n - 1)
WindPlan(last_call) ==
    [size |-> <<WindW, 1>>, dsize |-> <<WindW, 1>>,
     calls |-> Append(Turns(WindTurns), last_call)]

\* A path given as its calls, in quarters of a pixel, on a w x h mask,
\* composited with White.
PathPlan(w, h, calls) ==
    [size |-> <<w, h>>, dsize |-> <<w, h>>, calls |-> Append(calls, PSrc(w, h, White))]

\* One stroke down the left edge of the first row of a w x h mask, then two
\* composite calls into a destination of one pixel with no reset or clear
\* between them.
TwicePlan(w, h) ==
    [size |-> <<w, h>>, dsize |-> <<1, 1>>,
     calls |-> <<PMove(0, 0), PLine(0, 1), PSrc(1, 1, White), PSrc(1, 1, White)>>]
\* The height of a mask 512 wide that has more than 2^31 / 0xFFFF cells.
TwiceH == 65

Plans ==
    {SquarePlan(64, 8, 56), SquarePlan(8, 1, 7), SquarePlan(4, 0, 2),
     TrianglePlan(3, 2, Pt(0, 0), Pt(2, 0), Pt(0, 2)),
     TrianglePlan(3, 2, Pt(0, 0), Pt(0, 2), Pt(2, 0)),
     TrianglePlan(4, 4, Pt(2, 2), Pt(14, 2), Pt(2, 14)),
     TrianglePlan(16, 16, Pt(8, 8), Pt(56, 8), Pt(8, 56)),
     WindPlan(PSrc(WindW, 1, White)), WindPlan(POver(WindW, 1, White)),
     PathPlan(4, 4, <<PMove(1, 1)>>),
     PathPlan(4, 4, <<PMove(0, 1), PLine(3, 1), PLine(1, 1)>>),
     PathPlan(3, 2, << <<"move_to", <<Pt(0, 0)>> >>, <<"line_to", <<Pt(0, 2)>> >>, PClose>>),
     PathPlan(4, 3, << <<"move_to", <<Pt(2, 2)>> >>, <<"line_to", <<Pt(9, 6)>> >>, PClose>>),
     TwicePlan(4, 4), TwicePlan(FPM_THRESHOLD, TwiceH)}

InitPlan == \E p \in Plans : InitAt(p.size, p.dsize, p.calls)

SpecPlan == InitPlan /\ [][NextPlan]_vars
(***************************************************************************)
(* SpecSizes: draw cycles that change the size of the mask, across the     *)
(* threshold between the engines, and composite into rectangles of a 2 x 2 *)
(* destination, empty ones included.                                       *)
(***************************************************************************)
MaxSizeOps == 2
MaxSizeCycles == 1
SizeDims == {<<3, 2>>, <<512, 1>>, <<513, 1>>, <<1, 513>>}
SizeMovePts == {Pt(2, 1)}
SizeLinePts == {Pt(2, 3), Pt(0, 2)}
SizeRects == {from_size(1, 1), Rectangle(1, 1, 1, 1), Rectangle(3, 3, 3, 3)}

InitSizes == InitWith(SizeDims, {<<2, 2>>})

SizeAgain == cycles < MaxSizeCycles
SizeMore == Len(path) < MaxSizeOps

NextSizes ==
    \/ SizeAgain /\ Clear
    \/ SizeAgain /\ Reset(SizeDims, {"Src"})
    \/ SizeMore /\ MoveTo(SizeMovePts)
    \/ SizeMore /\ LineTo(SizeLinePts)
    \/ SizeMore /\ Over(SizeRects, Colors)
    \/ SizeMore /\ Src(SizeRects, Colors)

SpecSizes == InitSizes /\ [][NextSizes]_vars

(***************************************************************************)
(* SpecGeom: a client that examines fixed-point numbers: num holds the     *)
(* number (frac: its fraction bits, the numerator of its fractional part)  *)
(* and what floor(), round() and ceil() return for it.                     *)
(***************************************************************************)
Examine(ty, v, frac, f, r, c) ==
    /\ num' = [ty |-> ty, v |-> v, frac |-> frac, floor |-> f, round |-> r, ceil |-> c]
    /\ UNCHANGED <<z, dst, status, overflow_checks, last, path, dst0, cycles, loop, plan>>

Examine26(vals) ==
    \E v \in vals :
        Examine("I26_6", v, v % Pow2(Shift26), I26_6_floor(v), I26_6_round(v), I26_6_ceil(v))

Examine52(his, mids, los) ==
    \E hi \in his, mid \in mids, lo \in los :
        Examine("I52_12", <<hi, mid, lo>>, lo % Pow2(Shift52), I52_12_floor(<<hi, mid, lo>>),
                I52_12_round(<<hi, mid, lo>>), I52_12_ceil(<<hi, mid, lo>>))

GeomSpan == 100
Vals26 == (-GeomSpan)..GeomSpan \cup {MinI32, MaxI32 - 64, MaxI32}
His52 == {-1, 0, 1, MaxI32}
Mids52 == {0, 1, Two16 - 1}
Los52 == {0, 1, 2047, 2048, 2049, 4095, 4096, 6143, 6144, Two16 - 1}

InitGeom == InitAt(<<1, 1>>, <<1, 1>>, <<>>)

NextGeom ==
    \/ Examine26(Vals26)
    \/ Examine52(His52, Mids52, Los52)

SpecGeom == InitGeom /\ [][NextGeom]_vars


(***************************************************************************)
(* SpecMul: a client that multiplies two fixed-point numbers: num holds    *)
(* the factors a and b and, once mul has been called, what a.mul(b)        *)
(* returned (v).                                                           *)
(***************************************************************************)
Factors(ty, as, bs) == {[ty |-> ty, a |-> a, b |-> b, called |-> FALSE] : a \in as, b \in bs}

ExamineMul(v) ==
    /\ num' = [ty |-> num.ty, a |-> num.a, b |-> num.b, called |-> TRUE, v |-> v]
    /\ UNCHANGED <<z, dst, status, overflow_checks, last, path, dst0, cycles, loop, plan>>

Mul26 == ~num.called /\ num.ty = "I26_6" /\ ExamineMul(I26_6_mul(num.a, num.b))

Mul52 == ~num.called /\ num.ty = "I52_12" /\ ExamineMul(I52_12_mul(num.a, num.b))

\* 1.0, 0.5, 1.5 and other numbers of each type, as the i32 and as the limbs
\* of the i64.
MulVals26 == {0, 1, -1, 32, 64, 96, -64, 100, 4096, MaxI32, MinI32}
MulBy26 == {0, 1, 32, 64, -64, 128, MaxI32}
MulVals52 == {<<hi, mid, lo>> : hi \in {-1, 0, 1, MaxI32}, mid \in {0, 1}, lo \in {0, 1, 4096, 6144}}
MulBy52 == {<<0, 0, 0>>, <<0, 0, 2048>>, <<0, 0, 4096>>, <<-1, Two16 - 1, Two16 - 4096>>}

InitMul ==
    \/ InitNum(Factors("I26_6", MulVals26, MulBy26))
    \/ InitNum(Factors("I52_12", MulVals52, MulBy52))

NextMul ==
    \/ Mul26
    \/ Mul52

SpecMul == InitMul /\ [][NextMul]_vars

(***************************************************************************)
(* SpecFrame: a 2 x 2 mask composited into rectangles of a 3 x 3           *)
(* destination that has been filled: rectangles inside the destination     *)
(* that do not start at its origin, one the size of the destination and    *)
(* so wider than the mask.                                                 *)
(***************************************************************************)
MaxFrameOps == 4
FrameMovePts == {Pt(2, 4)}
FrameLinePts == {Pt(2, 8), Pt(6, 2)}
FrameRects == {Rectangle(1, 1, 3, 3), Rectangle(1, 0, 2, 2), from_size(3, 3)}

InitFrame == InitAt(<<2, 2>>, <<3, 3>>, <<>>)

FrameMore == Len(path) < MaxFrameOps

NextFrame ==
    \/ FrameMore /\ MoveTo(FrameMovePts)
    \/ FrameMore /\ LineTo(FrameLinePts)
    \/ FrameMore /\ Fill(Fills)
    \/ FrameMore /\ Over(FrameRects, Colors)
    \/ FrameMore /\ Src(FrameRects, Colors)

SpecFrame == InitFrame /\ [][NextFrame]_vars

(***************************************************************************)
(* SpecOver: a client that composites one byte: num holds a destination    *)
(* byte d, a component s of a premultiplied colour with alpha sa and a     *)
(* mask value ma and, once the byte has been composited, what lines        *)
(* 316-321 of rgba_uniform_over store for them (v) and whether a u32       *)
(* operation overflowed on the way (ovf).                                  *)
(***************************************************************************)
OverBytes == {0, 1, 128, 255}
OverAlphas == {0, 1, 32768, 65534, 65535}
OverMasks == {0, 1, 2, 32767, 32768, 65534, 65535}
\* The components of a premultiplied colour with alpha sa.
OverComponents(sa) == {0, sa \div 2, sa}
OverInputs ==
    UNION {{[ty |-> "over", d |-> d, s |-> s, sa |-> sa, ma |-> ma, called |-> FALSE] :
               s \in OverComponents(sa)} :
           d \in OverBytes, sa \in OverAlphas, ma \in OverMasks}

ExamineOver ==
    /\ ~num.called
    /\ num' = [ty |-> "over", d |-> num.d, s |-> num.s, sa |-> num.sa, ma |-> num.ma,
               called |-> TRUE,
               v |-> OverByte(num.d, num.s, num.sa, num.ma).v,
               ovf |-> OverByte(num.d, num.s, num.sa, num.ma).ovf]
    /\ UNCHANGED <<z, dst, status, overflow_checks, last, path, dst0, cycles, loop, plan>>

InitOver == InitNum(OverInputs)

NextOver == ExamineOver

SpecOver == InitOver /\ [][NextOver]_vars

(***************************************************************************)
(* Exact arithmetic for the formulas of the compositors: a natural number  *)
(* below 2^64 as its 8 base-256 digits, the most significant first.     *)
(***************************************************************************)
\* The digits of n >= 0, and of the unsigned value of the u32 pattern p.
WNat(n) == <<0, 0, 0, 0, (n \div Two24) % 256, (n \div Two16) % 256,
             (n \div 256) % 256, n % 256>>
WOf(p) == <<0, 0, 0, 0, Hi16(p) \div 256, Hi16(p) % 256, Lo16(p) \div 256, Lo16(p) % 256>>
\* ds * x for 0 <= x < 2^16: the carry out of digit i, and the product.
RECURSIVE WMulCarry(_, _, _)
WMulCarry(ds, x, i) ==
    IF i > 8 THEN 0 ELSE ((ds[i] * x) + WMulCarry(ds, x, i + 1)) \div 256
WMul(ds, x) == [i \in 1..8 |-> ((ds[i] * x) + WMulCarry(ds, x, i + 1)) % 256]
\* as + bs.
RECURSIVE WAddCarry(_, _, _)
WAddCarry(as, bs, i) ==
    IF i > 8 THEN 0 ELSE (as[i] + bs[i] + WAddCarry(as, bs, i + 1)) \div 256
WAdd(as, bs) == [i \in 1..8 |-> (as[i] + bs[i] + WAddCarry(as, bs, i + 1)) % 256]
\* as >= bs, and as - bs when it holds.
WGe(as, bs) ==
    \/ as = bs
    \/ \E i \in 1..8 : as[i] > bs[i] /\ \A j \in 1..(i - 1) : as[j] = bs[j]
RECURSIVE WBorrow(_, _, _)
WBorrow(as, bs, i) ==
    IF i > 8 THEN 0
    ELSE IF as[i] - bs[i] - WBorrow(as, bs, i + 1) < 0 THEN 1 ELSE 0
WSub(as, bs) == [i \in 1..8 |-> (as[i] - bs[i] - WBorrow(as, bs, i + 1)) % 256]
\* floor(ds / d) for 0 < d < 2^16: the remainder after digit i, and the
\* quotient.
RECURSIVE WRem(_, _, _)
WRem(ds, d, i) == IF i = 0 THEN 0 ELSE ((WRem(ds, d, i - 1) * 256) + ds[i]) % d
WDiv(ds, d) == [i \in 1..8 |-> ((WRem(ds, d, i - 1) * 256) + ds[i]) \div d]
\* floor(ds / 256).
WShr8(ds) == [i \in 1..8 |-> IF i = 1 THEN 0 ELSE ds[i - 1]]

\* (s * ma / 0xFFFF) >> 8 in exact arithmetic.
IdealSrc(s, ma) == WShr8(WDiv(WMul(WOf(ma), s), 65535))
\* b = ((d * 0x101 * a + s * ma) / 0xFFFF) >> 8 with
\* a = 0xFFFF - (sa * ma / 0xFFFF), in exact arithmetic:
\* d*0x101*a + s*ma = (d*0x101*0xFFFF + s*ma) - d*0x101*(sa*ma / 0xFFFF).
IdealOverIs(b, d, s, sa, ma) ==
    LET plus  == WAdd(WMul(WNat(d * 257), 65535), WMul(WOf(ma), s))
        minus == WMul(WDiv(WMul(WOf(ma), sa), 65535), d * 257)
    IN WGe(plus, minus) /\ WShr8(WDiv(WSub(plus, minus), 65535)) = WNat(b)

(***************************************************************************)
(* The claims.                                                             *)
(***************************************************************************)
Compositors == {"rgba_uniform_over", "rgba_uniform_src"}
\* This step is a call recorded in path; the call has returned.
CallStep == Len(path') = Len(path) + 1
Returned == status = "ok"
\* The pixels (x, y) of a rectangle r, relative to r.min.
RectXs(r) == 0..(rect_dx(r) - 1)
RectYs(r) == 0..(rect_dy(r) - 1)
\* The mask cell under pixel (x, y) of the rectangle, in rasterizer zz.
MaskAt(zz, x, y) == zz.buf[(y * zz.size[1]) + x]
\* The offset in d.pix of byte c of pixel (x, y) of the rectangle r.
ByteAt(d, r, x, y, c) == pix_offset(d, r.min.x + x, r.min.y + y) + c
PlanDone == Len(plan) > 0 /\ Len(path) = Len(plan)

\* C1: line_to returns after at most min(ceil(by), height) - floor(ay) passes
\* of its loop: while a call is inside the loop, the number of passes made
\* does not exceed that bound.
C1_RowStepsBounded == loop.on => loop.steps <= loop.bound

\* C2: the plan that fills the square with integer corners (lo, lo), (hi, hi)
\* on a fixed-engine mask with rgba_uniform_src and the colour
\* (0, 0, 0xFFFF, 0xFFFF) runs to its end, and then every pixel inside the
\* square holds (0, 0, 0xFF, 0xFF) and every other pixel (0, 0, 0, 0).
SquareLo == F32ToI32(plan[1][2][1][1])
SquareHi == F32ToI32(plan[3][2][1][1])
IsSquarePlan ==
    /\ Len(plan) = 6
    /\ z.size[1] = z.size[2]
    /\ ~z.use_fpm
    /\ SquareLo >= 0 /\ SquareLo < SquareHi /\ SquareHi <= z.size[1]
    /\ plan = SquarePlan(z.size[1], SquareLo, SquareHi).calls
C2_SquareFilled ==
    (IsSquarePlan /\ (PlanDone \/ ~Returned)) =>
        /\ Returned
        /\ \A x \in 0..(z.size[1] - 1), y \in 0..(z.size[2] - 1) :
             at(dst, x, y) = IF /\ SquareLo <= x /\ x < SquareHi
                                /\ SquareLo <= y /\ y < SquareHi
                             THEN <<0, 0, 255, 255>> ELSE <<0, 0, 0, 0>>

\* C3: after rgba_uniform_over or rgba_uniform_src has returned, every cell
\* of buf, read as an unsigned 32-bit value, is in 0..0xFFFF.
C3_MaskCellsInRange ==
    (last.op \in Compositors /\ Returned) =>
        \A i \in DOMAIN z.buf : 0 <= z.buf[i] /\ z.buf[i] <= 65535

\* C4: a closed polygon move_to(a); line_to(p1); ..; line_to(pn); close_path()
\* and the same polygon traversed in the reverse direction, move_to(a);
\* line_to(pn); ..; line_to(p1); close_path(), give the same mask after the
\* accumulation of a compositor.
IsPolygonPlan ==
    /\ Len(plan) >= 5
    /\ plan[1][1] = "move_to"
    /\ \A k \in 2..(Len(plan) - 2) : plan[k][1] = "line_to"
    /\ plan[Len(plan) - 1][1] = "close_path"
    /\ plan[Len(plan)][1] \in Compositors
ReversePolygon(calls) ==
    [k \in 1..Len(calls) |->
        IF 2 <= k /\ k <= Len(calls) - 2 THEN calls[Len(calls) - k] ELSE calls[k]]
MaskOfReverse ==
    ApplyCalls([z |-> new(z.size[1], z.size[2]), dst |-> dst0, st |-> "ok"],
               ReversePolygon(plan), 1, overflow_checks)
C4_ReverseSameMask ==
    (IsPolygonPlan /\ PlanDone /\ Returned) =>
        (MaskOfReverse.st = "ok" /\ MaskOfReverse.z.buf = z.buf)

\* C5: after rgba_uniform_src has returned, each of the four bytes of every
\* pixel (x, y) of r is (s * ma / 0xFFFF) >> 8 for the mask cell ma under the
\* pixel and the colour component s the byte is computed from; with the
\* colour (0xFFFF, 0xFFFF, 0xFFFF, 0xFFFF) every byte is ma >> 8.
C5_SrcFormula ==
    (last.op = "rgba_uniform_src" /\ Returned) =>
        \A x \in RectXs(last.args[1]), y \in RectYs(last.args[1]), c \in 0..3 :
          /\ WNat(dst.pix[ByteAt(dst, last.args[1], x, y, c)])
               = IdealSrc(Component(last.args[2], c), MaskAt(z, x, y))
          /\ last.args[2] = White =>
               WNat(dst.pix[ByteAt(dst, last.args[1], x, y, c)])
                 = WShr8(WOf(MaskAt(z, x, y)))

\* C6: a call of rgba_uniform_over that returns leaves in each byte of
\* every pixel of r the value ((dst * 0x101 * a + s * ma) / 0xFFFF) >> 8 with
\* a = 0xFFFF - (sa * ma / 0xFFFF), dst being the byte before the call; with
\* sa = 0xFFFF a pixel whose mask is 0xFFFF gets the bytes s >> 8.
C6_OverFormula ==
    [][(CallStep /\ last'.op = "rgba_uniform_over" /\ Returned') =>
        \A x \in RectXs(last'.args[1]), y \in RectYs(last'.args[1]), c \in 0..3 :
          /\ IdealOverIs(dst'.pix[ByteAt(dst, last'.args[1], x, y, c)],
                         dst.pix[ByteAt(dst, last'.args[1], x, y, c)],
                         Component(last'.args[2], c), last'.args[2][4],
                         MaskAt(z', x, y))
          /\ (last'.args[2][4] = 65535 /\ MaskAt(z', x, y) = 65535) =>
               dst'.pix[ByteAt(dst, last'.args[1], x, y, c)]
                 = Component(last'.args[2], c) \div 256]_vars

\* C7: in both compositors the bytes of a pixel are blue, green, red, alpha in
\* memory order: a call that returns has computed byte 0 of every pixel of r
\* from sb, byte 1 from sg, byte 2 from sr and byte 3 from sa.
BGRAComponent(color, c) == color[IF c = 0 THEN 3 ELSE IF c = 2 THEN 1 ELSE c + 1]
CycleStep == cycles' = cycles + 1
C8_ResetIsNew ==
    [][/\ (CycleStep /\ last'.op = "reset") =>
             z' = [new(last'.args[1], last'.args[2]) EXCEPT !.draw_op = last'.args[3]]
       /\ (CycleStep /\ last'.op = "clear") => z' = new(z.size[1], z.size[2])]_vars
\* A reset to another size made after a draw cycle that drew: the
\* destination at the reset holds the bytes that cycle composited.
C8_ResetAfterDrawing ==
    /\ last.op = "reset" /\ last.args = <<513, 1, "Src">>
    /\ cycles >= 1
    /\ \E j \in DOMAIN dst0.pix : dst0.pix[j] # 0

\* C9: a draw cycle is repeatable: after any number of earlier cycles, the
\* mask and the destination are those that the calls of the current cycle
\* give on a new rasterizer of the same size and the destination the cycle
\* began with.
FreshCycle ==
    ApplyCalls([z |-> [new(z.size[1], z.size[2]) EXCEPT !.draw_op = z.draw_op],
                dst |-> dst0, st |-> "ok"], path, 1, overflow_checks)
C9_CycleRepeats ==
    cycles >= 1 =>
        (FreshCycle.st = status /\ FreshCycle.z = z /\ FreshCycle.dst = dst)
\* A second cycle that has composited a mask with covered cells onto a
\* destination that the first cycle had drawn on.
C9_SecondCycleDrawn ==
    /\ cycles >= 1 /\ last.op \in Compositors /\ Returned
    /\ \E j \in DOMAIN dst0.pix : dst0.pix[j] # 0
    /\ \E i \in DOMAIN z.buf : z.buf[i] # 0

\* C10: a line_to, quad_to or cube_to that returns leaves the pen at the
\* given endpoint, a close_path that returns leaves it at first, and none
\* of the four changes first.
PenOps == {"line_to", "quad_to", "cube_to", "close_path"}
C10_PenAtEndpoint ==
    [][(CallStep /\ last'.op \in PenOps /\ Returned') =>
        /\ z'.first = z.first
        /\ z'.pen = IF last'.op = "close_path" THEN z.first
                    ELSE last'.args[Len(last'.args)]]_vars
\* A line_to that was discarded as horizontal, away from the origin.
C10_HorizontalLineTo ==
    /\ last.op = "line_to" /\ Returned
    /\ Len(path) = 2 /\ path[1][1] = "move_to"
    /\ last.args[1][2] = path[1][2][1][2]
    /\ z.pen = last.args[1] /\ z.pen # z.first

\* C11: move_to(ax, ay) sets first and pen to (ax, ay) and changes nothing
\* else of the rasterizer, nor the destination, also when the point lies
\* outside the mask.
C11_MoveToFrame ==
    [][(CallStep /\ last'.op = "move_to") =>
        /\ z' = [z EXCEPT !.first = last'.args[1], !.pen = last'.args[1]]
        /\ dst' = dst /\ status' = status]_vars
\* A move_to to a point above the mask, made on a mask that holds deltas,
\* with the pen elsewhere.
C11_MoveToOutside ==
    /\ last.op = "move_to" /\ last.args[1] = Pt(6, -6)
    /\ z.first = Pt(6, -6) /\ z.pen = Pt(6, -6)
    /\ \E k \in 1..(Len(path) - 1) : path[k][1] = "line_to"
    /\ \E i \in DOMAIN z.buf : z.buf[i] # 0

\* C12: in every state use_fpm = (width > 512 \/ height > 512); only reset
\* and clear change size or use_fpm; line_to and the accumulator of the
\* compositors run the floating engine iff the size is beyond 512; a
\* dimension of exactly 512 keeps the fixed engine.
EngineBySize == z.use_fpm = (z.size[1] > 512 \/ z.size[2] > 512)
C12_EngineBySize ==
    /\ EngineBySize
    /\ [][/\ EngineBySize'
          /\ ~CycleStep => (z'.size = z.size /\ z'.use_fpm = z.use_fpm)
          /\ (CallStep /\ last'.op = "line_to") =>
               [z |-> z', st |-> status']
                 = IF z.size[1] > 512 \/ z.size[2] > 512
                   THEN floating_line_to(z, last'.args[1][1], last'.args[1][2])
                   ELSE fixed_line_to(z, last'.args[1][1], last'.args[1][2],
                                      overflow_checks)
          /\ (CallStep /\ last'.op \in Compositors /\ Returned') =>
               z'.buf = IF z.size[1] > 512 \/ z.size[2] > 512
                        THEN floating_accumulate_mask(z).z.buf
                        ELSE fixed_accumulate_mask(z, overflow_checks).z.buf]_vars
\* A line_to on a mask 512 wide, reached by a reset from another size, has
\* run the fixed engine and written a delta.
C12_FixedAt512 ==
    /\ z.size = <<512, 1>> /\ ~z.use_fpm /\ cycles >= 1
    /\ last.op = "line_to" /\ Returned
    /\ \E i \in DOMAIN z.buf : z.buf[i] # 0

\* C13: in every state the buffer holds ceil(w * h / 4) * 4 cells.
C13_BufLen == BufLen(z.buf) = 4 * (((z.size[1] * z.size[2]) + 3) \div 4)
\* A composite call has returned on a mask of 513 cells, reached by a reset.
C13_OddSizeComposited ==
    /\ (z.size[1] * z.size[2]) % 4 # 0 /\ cycles >= 1
    /\ last.op \in Compositors /\ Returned
    /\ BufLen(z.buf) = 516

\* C16: a call of rgba_uniform_over or rgba_uniform_src returns, and when r
\* is empty it changes no byte of the destination, wherever r.min lies.
C16_CompositeInfallible ==
    [][(CallStep /\ last'.op \in Compositors) =>
        /\ Returned'
        /\ (rect_dx(last'.args[1]) <= 0 \/ rect_dy(last'.args[1]) <= 0) => dst' = dst]_vars

\* C14: a path that encloses no area - a lone move_to, horizontal segments
\* only, or move_to(a); line_to(b); close_path() - is drawn and composited
\* without failure and leaves every mask cell 0 after the accumulation.
PathLen == Len(plan) - 1
IsZeroAreaPlan ==
    /\ Len(plan) >= 2
    /\ plan[Len(plan)][1] \in Compositors
    /\ plan[1][1] = "move_to"
    /\ \/ PathLen = 1
       \/ \A k \in 2..PathLen :
             plan[k][1] = "line_to" /\ plan[k][2][1][2] = plan[1][2][1][2]
       \/ PathLen = 3 /\ plan[2][1] = "line_to" /\ plan[3][1] = "close_path"
C14_ZeroAreaZeroMask ==
    (IsZeroAreaPlan /\ (PlanDone \/ ~Returned)) =>
        (Returned /\ \A i \in DOMAIN z.buf : z.buf[i] = 0)

\* C15: translating every coordinate of a polygon by integers (dx, dy), the
\* polygon and its translation both inside the mask, gives the mask shifted
\* by (dx, dy): cell (x + dx, y + dy) of the translated mask equals cell
\* (x, y) of the original one.
Shifts == {<<1, 0>>, <<0, 1>>, <<1, 1>>}
ShiftPoint(p, d) == <<F32Add(p[1], I32ToF32(d[1])), F32Add(p[2], I32ToF32(d[2]))>>
Translate(calls, d) ==
    [k \in 1..Len(calls) |->
        IF calls[k][1] \in {"move_to", "line_to"}
        THEN <<calls[k][1], <<ShiftPoint(calls[k][2][1], d)>> >>
        ELSE calls[k]]
InsideMask(calls) ==
    \A k \in 1..Len(calls) :
        calls[k][1] \in {"move_to", "line_to"} =>
            /\ F32Le(F32Zero, calls[k][2][1][1])
            /\ F32Le(calls[k][2][1][1], I32ToF32(z.size[1]))
            /\ F32Le(F32Zero, calls[k][2][1][2])
            /\ F32Le(calls[k][2][1][2], I32ToF32(z.size[2]))
MaskOfTranslate(d) ==
    ApplyCalls([z |-> new(z.size[1], z.size[2]), dst |-> dst0, st |-> "ok"],
               Translate(plan, d), 1, overflow_checks)
C15_TranslationShiftsMask ==
    (IsPolygonPlan /\ PlanDone /\ Returned /\ InsideMask(plan)) =>
        \A d \in Shifts :
            InsideMask(Translate(plan, d)) =>
                /\ MaskOfTranslate(d).st = "ok"
                /\ \A x \in 0..(z.size[1] - 1 - d[1]), y \in 0..(z.size[2] - 1 - d[2]) :
                     MaskAt(MaskOfTranslate(d).z, x + d[1], y + d[2]) = MaskAt(z, x, y)

\* C17: a compositor called again with no reset or clear since the last
\* composite call returns, on every mask that the fixed engine serves.
C17_SecondCompositeReturns ==
    (/\ ~z.use_fpm
     /\ last.op \in Compositors
     /\ \E k \in 1..(Len(path) - 1) : path[k][1] \in Compositors) => Returned

\* C18: on a 16 x 16 mask the triangle (2,2), (14,2), (2,14) is drawn and
\* composited without failure, and its mask is strictly between 0 and 0xFFFF
\* at pixel (7,7), at least 0xF000 at (2,2) and 0 at (13,13).
Triangle16 == TrianglePlan(16, 16, Pt(8, 8), Pt(56, 8), Pt(8, 56))
FloatingW == FPM_THRESHOLD + 1
MaskOfFloating ==
    ApplyCalls([z |-> new(FloatingW, z.size[2]), dst |-> dst0, st |-> "ok"],
               plan, 1, overflow_checks)
C19_EnginesAgree ==
    (IsPolygonPlan /\ PlanDone /\ Returned /\ ~z.use_fpm) =>
        /\ MaskOfFloating.st = "ok"
        /\ \A x \in 0..(z.size[1] - 1), y \in 0..(z.size[2] - 1) :
             Abs(MaskOfFloating.z.buf[(y * FloatingW) + x] - MaskAt(z, x, y)) <= 1

\* C20: round() of I26_6 and I52_12 returns the integer nearest to the
\* value, a fraction of exactly one half rounded up: it is floor() + 1 when
\* the fraction is at least one half and floor() otherwise, and it differs
\* from ceil() when the fraction is below one half and not zero.
NumShift == IF num.ty = "I26_6" THEN Shift26 ELSE Shift52
\* A result plus one, in the form the result has.
Succ(r) ==
    IF num.ty = "I26_6" THEN r + 1
    ELSE IF r[3] < Two16 - 1 THEN <<r[1], r[2], r[3] + 1>>
    ELSE IF r[2] < Two16 - 1 THEN <<r[1], r[2] + 1, 0>>
    ELSE <<r[1] + 1, 0, 0>>
C20_RoundToNearest ==
    num.ty # "none" =>
        /\ num.round = IF 2 * num.frac >= Pow2(NumShift) THEN Succ(num.floor) ELSE num.floor
        /\ (0 < num.frac /\ 2 * num.frac < Pow2(NumShift)) => num.round # num.ceil

\* A step that makes one pass through the loop body of line_to, for row
\* loop.L.y of the segment.
RowPass == loop.on /\ loop'.on /\ loop'.steps = loop.steps + 1
RowCells(y, w) == (y * w)..((y * w) + (w - 1))
Modified(b0, b1) == {i \in DOMAIN b0 : b1[i] # b0[i]}

\* C21: in both engines a column index is clamped to [0, width] and a write
\* whose clamped index lies past the end of the row is suppressed: a pass
\* for row y modifies no cell outside the width cells of row y.
C21_RowWritesInRow ==
    [][RowPass => Modified(loop.L.buf, loop'.L.buf)
                    \subseteq RowCells(loop.L.y, loop.P.width)]_vars
\* C21 as the code has it: the slice of line 91 runs from the row's first
\* cell to the buffer's end, so the write at the clamped index width lands
\* in the first cell of row y + 1; no other cell outside row y is modified.
C21_RowWritesClamped ==
    [][RowPass => Modified(loop.L.buf, loop'.L.buf)
                    \subseteq (RowCells(loop.L.y, loop.P.width)
                               \cup {(loop.L.y + 1) * loop.P.width})]_vars
\* The first pass of a line_to from (6.5, 0.5), right of a mask 4 wide, has
\* written at the clamped index 4 of row 0: the first cell of row 1.
C21_WriteAtWidth ==
    /\ loop.on /\ loop.steps = 1 /\ loop.L.y = 1
    /\ z.size[1] = 4
    /\ Len(path) >= 2 /\ path[Len(path) - 1] = <<"move_to", <<Pt(26, 2)>> >>
    /\ clamp(fixed_floor(loop.L.x), z.size[1]) = z.size[1]
    /\ Modified(z.buf, loop.L.buf) = {z.size[1]}

\* The least integer >= v / 2^ϕ, for a fixed-point value v.
CeilOf(v) == (v + (fxOne - 1)) \div fxOne
Min(a, b) == IF a < b THEN a ELSE b

\* C22: for a non-horizontal segment with ay <= by the fixed engine
\* processes exactly the rows floor(ay) <= y < min(ceil(by), height), with
\* ceil(by) the least integer >= by, and for a segment whose rows all lie
\* inside the mask the dy values of its rows sum to by - ay.
C22_RowsOfSegment ==
    (loop.on /\ ~loop.fpm) =>
        /\ loop.steps = 0 => loop.L.y = fixed_floor(loop.P.ayphi)
        /\ loop.y_max = Min(CeilOf(loop.P.byphi), z.size[2])
        /\ (/\ loop.L.y >= loop.y_max
            /\ fixed_floor(loop.P.ayphi) >= 0
            /\ CeilOf(loop.P.byphi) <= z.size[2])
           => loop.dys = loop.P.byphi - loop.P.ayphi

\* A pass of the fixed engine through the branch of line 103, for a row
\* inside the mask.
RowHead == fixed_head(loop.L, loop.P)
NarrowPass ==
    RowPass /\ ~loop.fpm /\ loop.L.y >= 0 /\ RowHead.x1i <= RowHead.x0i + 1
\* The fraction of the midpoint of x and x_next within column x0i.
Xmf(H) == ((H.x + H.x_next) \div 2) - (H.x0i * fxOne)
\* buf[off + i] += D, modulo 2^32, for an index within the buffer.
CellAdd(buf, off, i, D) ==
    IF off + i \in DOMAIN buf THEN [buf EXCEPT ![off + i] = WrapAdd(@, D)] ELSE buf

\* C23: a row of the fixed engine's narrow case (x1i <= x0i + 1) adds
\* d*(fxOne - xmf) to column x0i and d*xmf to column x0i+1, where xmf =
\* ((x + x_next) >> 1) - x0floor is the midpoint's fraction within column
\* x0i and lies in [0, fxOne], so that the two deltas sum to d*fxOne.
C23_NarrowDeltas ==
    [][NarrowPass =>
        /\ status' = "ok"
        /\ Xmf(RowHead) \in 0..fxOne
        /\ loop'.L.buf =
             CellAdd(CellAdd(loop.L.buf, loop.L.y * loop.P.width,
                             clamp(RowHead.x0i, loop.P.width),
                             RowHead.d * (fxOne - Xmf(RowHead))),
                     loop.L.y * loop.P.width,
                     clamp(RowHead.x0i + 1, loop.P.width),
                     RowHead.d * Xmf(RowHead))]_vars

\* A pass of the fixed engine through lines 152-258 (x1i > x0i + 2) whose
\* columns x0i .. x1i - 1 all lie inside the mask, so that column x1i - 1
\* receives the delta of lines 252-257 and no other.
WidePass ==
    /\ RowPass /\ ~loop.fpm /\ loop.L.y >= 0
    /\ RowHead.x1i > RowHead.x0i + 2
    /\ RowHead.x0i >= 0 /\ RowHead.x1i - 1 < loop.P.width
\* x1f of line 119.
X1f(H) == (H.x1 - (H.x1i * fxOne)) + fxOne

\* C24: in the fixed engine's wide case with x1i > x0i + 2 the delta added
\* to column x1i - 1 is ((((x1f << 1) + ((1 << (ϕ+2)) - (fxOneAndAHalf << 1)))
\* << ϕ) - x1f*x1f) * d / twoOverS, with fxOne = 512 and fxOneAndAHalf = 768.
C24_LastMiddleDelta ==
    [][WidePass =>
        /\ status' = "ok"
        /\ fxOne = 512 /\ fxOneAndAHalf = 768
        /\ loop'.L.buf[(loop.L.y * loop.P.width) + (RowHead.x1i - 1)] =
             WrapAdd(loop.L.buf[(loop.L.y * loop.P.width) + (RowHead.x1i - 1)],
                     TruncDiv(((((X1f(RowHead) * 2) + (2048 - (768 * 2))) * 512)
                               - (X1f(RowHead) * X1f(RowHead))) * RowHead.d,
                              2 * (RowHead.x1 - RowHead.x0)))]_vars

\* A pass of the fixed engine for a row inside the mask whose slice
\* [x0, x1] of the segment lies inside the mask as well.
InsidePass ==
    /\ RowPass /\ ~loop.fpm /\ loop.L.y >= 0
    /\ RowHead.x0 >= 0 /\ RowHead.x1 <= loop.P.width * fxOne

\* C25: on a mask of at most 512x512 every intermediate value D of the
\* wedge and rectangle terms of a segment inside the mask stays within
\* +-2^(3ϕ+3) = +-2^30, and no signed 32-bit multiplication or shift of
\* fixed_line_to overflows.
C25_TermsBounded ==
    [][InsidePass =>
        \A k \in DOMAIN fixed_D(RowHead) :
            /\ ~fixed_D(RowHead)[k].ovf
            /\ fixed_D(RowHead)[k].D >= -Pow2((3 * phi) + 3)
            /\ fixed_D(RowHead)[k].D <= Pow2((3 * phi) + 3)
            /\ fixed_D(RowHead)[k].prod >= -Pow2((3 * phi) + 3)
            /\ fixed_D(RowHead)[k].prod <= Pow2((3 * phi) + 3)]_vars

\* A pass of the fixed engine, for a row inside the mask, in which no
\* signed operation overflows: the additions to the buffer are all that is
\* left to fail.
CleanPass ==
    /\ RowPass /\ ~loop.fpm /\ loop.L.y >= 0
    /\ ~(RowHead.ovfNext \/ RowHead.ovfD \/ RowHead.ovfCeil)
    /\ \A k \in DOMAIN fixed_D(RowHead) : ~fixed_D(RowHead)[k].ovf

\* C26: each delta is added into its cell modulo 2^32, as the unsigned
\* reinterpretation of a signed value: the cell then holds the signed sum,
\* and the addition never raises an overflow failure, whatever the signs of
\* the cell and the delta and the order of the line_to calls.
C26_AddWraps ==
    [][CleanPass =>
        /\ status' = "ok"
        /\ RowHead.x1i <= RowHead.x0i + 1 =>
             loop'.L.buf =
               CellAdd(CellAdd(loop.L.buf, loop.L.y * loop.P.width,
                               clamp(RowHead.x0i, loop.P.width),
                               fixed_D(RowHead)[1].prod),
                       loop.L.y * loop.P.width,
                       clamp(RowHead.x0i + 1, loop.P.width),
                       fixed_D(RowHead)[2].prod)]_vars

\* floor((3 * devsq)^(1/4)) for devsq >= 0.333: the number of j >= 1 whose
\* fourth power does not exceed 3 * devsq (MaxRoot at most).
FourthRoot(devsq) ==
    LET u == Unpack(devsq)
        T == IF u.e >= 5 THEN MaxI32
             ELSE IF u.e >= 0 THEN 3 * u.m * Pow2(u.e)
             ELSE IF u.e < -30 THEN 0
             ELSE (3 * u.m) \div Pow2(-u.e)
    IN Cardinality({j \in 1..MaxRoot : j * j * j * j <= T})
\* The number of chords for the control points A = <<pen, .., end>>.
ChordCount(A) ==
    LET ds == IF Len(A) = 3
              THEN dev_squared(A[1][1], A[1][2], A[2][1], A[2][2], A[3][1], A[3][2])
              ELSE LET d1 == dev_squared(A[1][1], A[1][2], A[2][1], A[2][2],
                                         A[4][1], A[4][2])
                       d2 == dev_squared(A[1][1], A[1][2], A[3][1], A[3][2],
                                         A[4][1], A[4][2])
                   IN IF F32Lt(d1, d2) THEN d2 ELSE d1
    IN IF F32Lt(ds, Tolerance) THEN 1 ELSE 1 + FourthRoot(ds)
\* The parameter k/n as the f32 quotient of k and n, and as the code
\* reaches it: 1/n added k times to 0.
Quotient(k, n) == F32Div(I32ToF32(k), I32ToF32(n))
RECURSIVE Stepped(_, _)
Stepped(k, n) ==
    IF k = 0 THEN F32Zero ELSE F32Add(Stepped(k - 1, n), F32Div(F32One, I32ToF32(n)))
\* The endpoints of the n chords, the parameter of the k-th being T(k, n).
Chords(A, T(_, _)) ==
    LET n == ChordCount(A)
    IN [k \in 1..n |-> IF k = n THEN A[Len(A)]
                       ELSE IF Len(A) = 3 THEN QuadPoint(T(k, n), A)
                       ELSE CubePoint(T(k, n), A)]
\* line_to to each point of pts from the k-th on, as long as the calls return.
RECURSIVE LineTos(_, _, _, _)
LineTos(R, pts, k, chk) ==
    IF k > Len(pts) \/ R.st # "ok" THEN R
    ELSE LineTos(line_to(R.z, pts[k][1], pts[k][2], chk), pts, k + 1, chk)
CurveStep == CallStep /\ last'.op \in {"quad_to", "cube_to"}
CurveAs(T(_, _)) ==
    [z |-> z', st |-> status'] =
        LineTos([z |-> z, st |-> "ok"],
                Chords(<<z.pen>> \o last'.args, T), 1, overflow_checks)

IdealOverSum(d, s, sa, ma) ==
    WSub(WAdd(WMul(WNat(d * 257), 65535), WMul(WOf(ma), s)),
         WMul(WDiv(WMul(WOf(ma), sa), 65535), d * 257))

\* C28: for a premultiplied source (s <= sa <= 0xFFFF), a mask value ma <=
\* 0xFFFF and any destination byte, dst*0x101*a + s*ma stays below 2^32 and
\* ((dst*0x101*a + s*ma) / 0xFFFF) >> 8 is at most 0xFF: no u32 operation
\* of rgba_uniform_over overflows and the byte stored is that value.
C28_OverInRange ==
    num.called =>
        /\ ~num.ovf
        /\ \A i \in 1..4 : IdealOverSum(num.d, num.s, num.sa, num.ma)[i] = 0
        /\ \A i \in 1..7 :
             WShr8(WDiv(IdealOverSum(num.d, num.s, num.sa, num.ma), 65535))[i] = 0
        /\ IdealOverIs(num.v, num.d, num.s, num.sa, num.ma)
\* The largest sum there is, 0xFFFF * 0xFFFF + 0xFFFE = 0xFFFEFFFF: a white
\* destination byte under a source of alpha 0xFFFE at mask value 1.
C28_LargestSum ==
    /\ num.called /\ num.d = 255 /\ num.s = 65534 /\ num.sa = 65534 /\ num.ma = 1
    /\ IdealOverSum(num.d, num.s, num.sa, num.ma) = <<0, 0, 0, 0, 255, 254, 255, 255>>
    /\ num.v = 255


\* r lies inside the destination view d and is no larger than the mask zz.
RectInside(r, d, zz) ==
    /\ d.rect.min.x <= r.min.x /\ r.min.x <= r.max.x /\ r.max.x <= d.rect.max.x
    /\ d.rect.min.y <= r.min.y /\ r.min.y <= r.max.y /\ r.max.y <= d.rect.max.y
    /\ rect_dx(r) <= zz.size[1] /\ rect_dy(r) <= zz.size[2]
\* The offsets in d.pix of the bytes of the pixels of r.
BytesOf(d, r) == {ByteAt(d, r, x, y, c) : x \in RectXs(r), y \in RectYs(r), c \in 0..3}
CompositeStep == CallStep /\ last'.op \in Compositors
\* The bytes that a step has changed.
Changed == {j \in DOMAIN dst.pix : dst'.pix[j] # dst.pix[j]}

\* C29: a composite call with r inside the destination view and no larger
\* than the mask changes only bytes of pixels inside r, and rgba_uniform_over
\* changes no byte of a pixel of r whose mask value is 0.
C29_CompositeFrame ==
    [][(CompositeStep /\ RectInside(last'.args[1], dst, z)) =>
        /\ DOMAIN dst'.pix = DOMAIN dst.pix
        /\ Changed \subseteq BytesOf(dst, last'.args[1])
        /\ last'.op = "rgba_uniform_over" =>
             \A x \in RectXs(last'.args[1]), y \in RectYs(last'.args[1]) :
                 MaskAt(z', x, y) = 0 =>
                     \A c \in 0..3 : ByteAt(dst, last'.args[1], x, y, c) \notin Changed]_vars
\* rgba_uniform_over has returned for the rectangle from (1, 1) to (3, 3) of
\* a destination filled before: the mask is 0 in its upper row and not in its
\* lower row, the pixel (1, 1) of the destination still holds the fill and
\* the pixel (1, 2) does not.
C29_OverPartOfRect ==
    /\ Returned /\ last.op = "rgba_uniform_over" /\ last.args[1] = Rectangle(1, 1, 3, 3)
    /\ \E k \in 1..Len(path) : path[k][1] = "fill"
    /\ MaskAt(z, 0, 0) = 0 /\ MaskAt(z, 0, 1) # 0
    /\ \A c \in 0..3 : dst.pix[pix_offset(dst, 1, 1) + c] = <<0, 128, 255, 255>>[c + 1]
    /\ \E c \in 0..3 : dst.pix[pix_offset(dst, 1, 2) + c] # <<0, 128, 255, 255>>[c + 1]
    /\ \A c \in 0..3 : dst.pix[pix_offset(dst, 0, 0) + c] = <<0, 128, 255, 255>>[c + 1]


\* (a * b + 2^(shift - 1)) >> shift in the wider type, brought back to the
\* type of the factors, and the number 1.0 of the type.
MulRounded ==
    IF num.ty = "I26_6"
    THEN I32OfWide(WideShr(WideAdd(WideMul(WideOfI32(num.a, 8), WideOfI32(num.b, 8)),
                                   Pow2(Shift26 - 1)), Shift26))
    ELSE I64OfWide(WideShr(WideAdd(WideMul(WideOfI64(num.a, 16), WideOfI64(num.b, 16)),
                                   Pow2(Shift52 - 1)), Shift52))
MulOne == IF num.ty = "I26_6" THEN Pow2(Shift26) ELSE <<0, 0, Pow2(Shift52)>>
\* C30: a.mul(b) of I26_6 and I52_12 is (a * b + 2^(shift - 1)) >> shift
\* computed in the wider type, and a.mul(1.0) is a.
C30_MulRoundsToNearest ==
    num.called =>
        /\ num.v = MulRounded
        /\ num.b = MulOne => num.v = num.a

====
